---- MODULE Spec2Model ----
(***************************************************************************)
(* RepoHealth report engine: the local heuristic analyzer                  *)
(* (localAnalyzer.js, src/unnamed/part_001), the AI enhancement            *)
(* orchestrator and the report merge logic (aiEnhancer.js, the second      *)
(* half of src/src/lib/reportBuilder.js).                                  *)
(*                                                                         *)
(* Conventions.                                                            *)
(*  - A JavaScript string is a sequence of tokens; the token " " is white  *)
(*    space, every other token is a run of non-blank characters.           *)
(*  - A JavaScript value read from a provider is a record [t, v]: t is the *)
(*    type tag and v the content (a number in tenths, a token sequence, a  *)
(*    sequence of values, a function from field names to values).          *)
(*  - Numbers supplied by providers are fixed-point tenths (855 is 85.5);  *)
(*    scores of a Report are integers.  Arithmetic is exact: Math.round is *)
(*    floor(x + 1/2).  IEEE-754 representation error on exact .5 ties is   *)
(*    not modelled.                                                        *)
(***************************************************************************)
EXTENDS Integers, Sequences, FiniteSets, TLC

(* ---------------------------------------------------------------------- *)
(* Arithmetic helpers                                                      *)
(* ---------------------------------------------------------------------- *)

Min(a, b) == IF a <= b THEN a ELSE b

Max(a, b) == IF a >= b THEN a ELSE b

\* clamp(value, min, max) == Math.max(min, Math.min(max, value))
\* the value itself, with no bounds applied
clampOff(value, lo, hi) == value

clamp(value, lo, hi) == Max(lo, Min(hi, value))

\* Math.round(num / den) for den > 0: floor(num/den + 1/2), ties toward +infinity
Round(num, den) == (2 * num + den) \div (2 * den)

RECURSIVE Gcd(_, _)
Gcd(a, b) == IF b = 0 THEN a ELSE Gcd(b, a % b)

\* the sum of s[lo..hi], halving the range
RECURSIVE SumRange(_, _, _)
SumRange(s, lo, hi) ==
  IF lo > hi THEN 0
  ELSE IF lo = hi THEN s[lo]
  ELSE SumRange(s, lo, (lo + hi) \div 2) + SumRange(s, ((lo + hi) \div 2) + 1, hi)

\* array.reduce((sum, x) => sum + x, 0)
SumSeq(s) == SumRange(s \o <<>>, 1, Len(s))

\* a fraction n/d, kept reduced
Frac(n, d) == LET g == Gcd(n, d) IN IF g = 0 THEN [n |-> 0, d |-> 1] ELSE [n |-> n \div g, d |-> d \div g]

FracAdd(x, y) == Frac(x.n * y.d + y.n * x.d, x.d * y.d)

RECURSIVE FracRange(_, _, _)
FracRange(s, lo, hi) ==
  IF lo > hi THEN [n |-> 0, d |-> 1]
  ELSE IF lo = hi THEN s[lo]
  ELSE FracAdd(FracRange(s, lo, (lo + hi) \div 2), FracRange(s, ((lo + hi) \div 2) + 1, hi))

FracSum(s) == FracRange(s \o <<>>, 1, Len(s))

(* ---------------------------------------------------------------------- *)
(* Sequence helpers (Array.prototype.map / filter / slice / flatMap)       *)
(* ---------------------------------------------------------------------- *)

\* array.filter(Keep)
Filter(s, Keep(_)) == SelectSeq(s \o <<>>, Keep)

\* array.map(F); the elements are computed once
Map(s, F(_)) == [i \in 1..Len(s) |-> F(s[i])] \o <<>>

\* array.slice(0, n) with the cut left out: the whole array
SliceNone(s, n) == s

\* array.slice(0, n)
Slice(s, n) == SubSeq(s, 1, Min(n, Len(s)))

\* the concatenation of ss[lo..hi], halving the range
RECURSIVE FlattenRange(_, _, _)
FlattenRange(ss, lo, hi) ==
  IF lo > hi THEN <<>>
  ELSE IF lo = hi THEN ss[lo]
  ELSE FlattenRange(ss, lo, (lo + hi) \div 2) \o FlattenRange(ss, ((lo + hi) \div 2) + 1, hi)

\* array.flat() / array.flatMap
Flatten(ss) == FlattenRange(ss \o <<>>, 1, Len(ss))

Range(s) == {s[i] : i \in 1..Len(s)}

\* the elements of s at the positions in keep, in order
Pick(s, keep) ==
  LET idx == SelectSeq([i \in 1..Len(s) |-> i], LAMBDA i : i \in keep)
  IN [k \in 1..Len(idx) |-> s[idx[k]]] \o <<>>

\* Array.prototype.sort with comparator "a goes before b when Before(a, b)";
\* the sort is stable (elements the comparator ranks equal keep their order):
\* the element at position i moves behind the elements that go before it and
\* the earlier elements of equal rank
StableSort(s, Before(_, _)) ==
  LET n == Len(s)
      t == s \o <<>>
      pos == [i \in 1..n |->
                1 + Cardinality({j \in 1..n : \/ Before(t[j], t[i])
                                              \/ j < i /\ ~Before(t[i], t[j])})] \o <<>>
  IN [p \in 1..n |-> t[CHOOSE i \in 1..n : pos[i] = p]] \o <<>>

(* ---------------------------------------------------------------------- *)
(* JavaScript strings and values                                           *)
(* ---------------------------------------------------------------------- *)

\* a one-token string literal
S(tok) == <<tok>>

\* the falsy result (null) of the sanitizers; no sanitizer returns ""
NullStr == <<>>

RECURSIVE TrimLeft(_)
TrimLeft(s) == IF s # <<>> /\ Head(s) = " " THEN TrimLeft(Tail(s)) ELSE s

RECURSIVE TrimRight(_)
TrimRight(s) ==
  IF s # <<>> /\ s[Len(s)] = " " THEN TrimRight(SubSeq(s, 1, Len(s) - 1)) ELSE s

\* String.prototype.trim
Trim(s) == TrimRight(TrimLeft(s))

\* String.prototype.toLowerCase on the vocabulary of the model: the tokens
\* that contain upper-case letters, each with its lower-case form
LowerCaseTable ==
  [x \in {"Add Tests", "Pin Deps", "Hybrid", "Ensemble",
          "Critical", "High", "Medium", "Low", "Moderate", "Elevated"} |->
     CASE x = "Add Tests" -> "add tests"
       [] x = "Pin Deps" -> "pin deps"
       [] x = "Hybrid" -> "hybrid"
       [] x = "Ensemble" -> "ensemble"
       [] x = "Critical" -> "critical"
       [] x = "High" -> "high"
       [] x = "Medium" -> "medium"
       [] x = "Low" -> "low"
       [] x = "Moderate" -> "moderate"
       [] x = "Elevated" -> "elevated"]

toLowerCase(s) ==
  [i \in 1..Len(s) |-> IF s[i] \in DOMAIN LowerCaseTable THEN LowerCaseTable[s[i]] ELSE s[i]]

\* array.join(sep) for an array of strings
RECURSIVE Join(_, _)
Join(strs, sep) ==
  IF strs = <<>> THEN <<>>
  ELSE IF Len(strs) = 1 THEN Head(strs)
       ELSE Head(strs) \o sep \o Join(Tail(strs), sep)

Undef == [t |-> "undef", v |-> 0]
Null == [t |-> "null", v |-> 0]
NaN == [t |-> "nan", v |-> 0]
Infinity == [t |-> "inf", v |-> 0]
Num(x) == [t |-> "num", v |-> x]
Str(s) == [t |-> "str", v |-> s]
Arr(a) == [t |-> "arr", v |-> a]
Obj(f) == [t |-> "obj", v |-> f]
\* the TypeError thrown by reading a property of undefined or null
TypeError == [t |-> "TypeError", v |-> 0]

\* value[key] for a value that is neither undefined nor null
Lookup(x, k) == IF x.t = "obj" /\ k \in DOMAIN x.v THEN x.v[k] ELSE Undef

\* x.k : throws on undefined and null
Member(x, k) ==
  IF x.t = "TypeError" THEN x
  ELSE IF x.t \in {"undef", "null"} THEN TypeError
       ELSE Lookup(x, k)

\* x?.k read as x.k: the optional chaining left out
OptMemberStrict(x, k) ==
  IF x.t = "TypeError" THEN x
  ELSE IF x.t \in {"undef", "null"} THEN TypeError
       ELSE Lookup(x, k)

\* x?.k : undefined on undefined and null
OptMember(x, k) ==
  IF x.t = "TypeError" THEN x
  ELSE IF x.t \in {"undef", "null"} THEN Undef
       ELSE Lookup(x, k)

\* the global isFinite, which coerces its argument: null counts as 0
IsFiniteCoercing(x) == x.t \in {"num", "null"}

\* Number.isFinite
IsFinite(x) == x.t = "num"

\* Array.isArray
IsArray(x) == x.t = "arr"

\* item && typeof item === 'object'
IsObjectLike(x) == x.t \in {"obj", "arr"}

\* Math.round of a number in tenths
RoundTenths(x) == Round(x, 10)

(* ---------------------------------------------------------------------- *)
(* Constants of aiEnhancer.js                                              *)
(* ---------------------------------------------------------------------- *)

CATEGORY_KEYS ==
  <<"maintainability", "reliability", "security", "documentation", "architecture">>

CategorySet == Range(CATEGORY_KEYS)

HYBRID_MODES == {"hybrid", "both", "ensemble"}

SEVERITY_RANK(sev) ==
  CASE sev = S("Critical") -> 4
    [] sev = S("High") -> 3
    [] sev = S("Medium") -> 2
    [] sev = S("Low") -> 1
    [] OTHER -> 0

IMPACT_RANK(impact) ==
  CASE impact = S("High") -> 2
    [] impact = S("Medium") -> 1
    [] OTHER -> 0

EFFORT_RANK(effort) ==
  CASE effort = S("Low") -> 3
    [] effort = S("Medium") -> 2
    [] effort = S("High") -> 1
    [] OTHER -> 0

DEFAULT_MODELS(provider) ==
  IF provider = "gemini" THEN S("gemini-3-flash-preview") ELSE S("llama-3.3-70b-versatile")

(* ---------------------------------------------------------------------- *)
(* Sanitizers                                                              *)
(* ---------------------------------------------------------------------- *)

sanitizeText(value) ==
  IF value.t # "str" THEN NullStr ELSE Trim(value.v)

\* a severity taken as the candidate wrote it, defaulted only when absent
sanitizeSeverityUnchecked(value) ==
  LET normalized == sanitizeText(value)
  IN IF normalized # NullStr THEN normalized ELSE S("Medium")

sanitizeSeverity(value) ==
  LET normalized == sanitizeText(value)
  IN IF normalized \in {S("Critical"), S("High"), S("Medium"), S("Low")}
     THEN normalized ELSE S("Medium")

sanitizeImpact(value) ==
  LET normalized == sanitizeText(value)
  IN IF normalized = S("High") THEN S("High") ELSE S("Medium")

sanitizeEffort(value) ==
  LET normalized == sanitizeText(value)
  IN IF normalized \in {S("Low"), S("Medium"), S("High")}
     THEN normalized ELSE S("Medium")

\* a risk level accepted whatever its case and returned in its canonical case
sanitizeRiskLevelAnyCase(value) ==
  LET normalized == sanitizeText(value)
  IN IF normalized \in {S("Low"), S("Moderate"), S("Elevated"), S("Critical")}
       THEN normalized
     ELSE IF normalized = S("critical") THEN S("Critical")
     ELSE NullStr

sanitizeRiskLevel(value) ==
  LET normalized == sanitizeText(value)
  IN IF normalized \in {S("Low"), S("Moderate"), S("Elevated"), S("Critical")}
     THEN normalized ELSE NullStr

\* a || b for strings
OrElse(a, b) == IF a # NullStr THEN a ELSE b

(* ---------------------------------------------------------------------- *)
(* localAnalyzer.js: grades and risk levels                                *)
(* ---------------------------------------------------------------------- *)

\* deriveGrade with the first breakpoint left out
deriveGradeNoTop(score) ==
  IF score >= 82 THEN S("A")
  ELSE IF score >= 74 THEN S("B")
  ELSE IF score >= 65 THEN S("C")
  ELSE IF score >= 55 THEN S("D")
  ELSE S("F")

deriveGrade(score) ==
  IF score >= 90 THEN S("A+")
  ELSE IF score >= 82 THEN S("A")
  ELSE IF score >= 74 THEN S("B")
  ELSE IF score >= 65 THEN S("C")
  ELSE IF score >= 55 THEN S("D")
  ELSE S("F")

deriveRiskLevel(score) ==
  IF score <= 28 THEN S("Low")
  ELSE IF score <= 52 THEN S("Moderate")
  ELSE IF score <= 75 THEN S("Elevated")
  ELSE S("Critical")

(* ---------------------------------------------------------------------- *)
(* localAnalyzer.js: per-file analysis                                     *)
(*                                                                         *)
(* A file of the snapshot is given by what the regular expressions of the  *)
(* analyzer see in it: path (tokens, "/" separates path segments), loc     *)
(* (number of lines), commentLines (lines matching the comment pattern),   *)
(* signals (sum of the COMPLEXITY_PATTERNS match counts) and hits (match   *)
(* count of each of the six ISSUE_PATTERNS).                               *)
(* ---------------------------------------------------------------------- *)

SEVERITY_ORDER(sev) ==
  CASE sev = S("Critical") -> 4
    [] sev = S("High") -> 3
    [] sev = S("Medium") -> 2
    [] sev = S("Low") -> 1

ISSUE_PATTERNS ==
  << [severity |-> S("Critical"), title |-> S("Dynamic code execution detected"),
      description |-> S("Using eval can execute untrusted input and creates severe security risk."),
      recommendation |-> S("Remove eval and replace it with explicit parsing or whitelisted handlers."),
      type |-> "security"],
     [severity |-> S("High"), title |-> S("Unsafe HTML injection surface"),
      description |-> S("Direct HTML injection can expose cross-site scripting vulnerabilities if input is not sanitized."),
      recommendation |-> S("Use safe rendering patterns and sanitize user-sourced content."),
      type |-> "security"],
     [severity |-> S("Low"), title |-> S("Debug residue found"),
      description |-> S("Debug statements and TODO markers indicate unfinished cleanup."),
      recommendation |-> S("Remove debug traces and convert TODOs into tracked issues."),
      type |-> "quality"],
     [severity |-> S("Medium"), title |-> S("Loose typing hotspots"),
      description |-> S("Frequent use of any reduces type safety and increases runtime defect risk."),
      recommendation |-> S("Replace any with stricter, explicit types for critical flows."),
      type |-> "reliability"],
     [severity |-> S("Medium"), title |-> S("Silent exception handling"),
      description |-> S("Empty catch blocks suppress failures and make incidents hard to debug."),
      recommendation |-> S("Log context, propagate recoverable errors, and return actionable failure states."),
      type |-> "reliability"],
     [severity |-> S("Critical"), title |-> S("Potential hardcoded credential"),
      description |-> S("Credential-like literals were detected in source code and may leak sensitive access."),
      recommendation |-> S("Move secrets to environment variables and rotate exposed keys."),
      type |-> "security"] >>

\* dedupeIssues: first issue of each severity:title key
dedupeIssues(issues) ==
  LET keys == [i \in 1..Len(issues) |-> <<issues[i].severity, issues[i].title>>] \o <<>>
  IN Pick(issues, {i \in 1..Len(issues) : \A j \in 1..(i - 1) : keys[j] # keys[i]})

analyzeFile(file) ==
  LET loc == file.loc
      commentRatio == IF loc > 0 THEN Frac(file.commentLines, loc) ELSE Frac(0, 1)
      complexitySignals == file.signals
      firstScore ==
        clamp(Round(complexitySignals * 140 + (IF loc > 260 THEN 2 ELSE 0) * Max(loc, 1),
                    Max(loc, 1)), 1, 10)
      complexityScore ==
        IF loc > 500 THEN clamp(firstScore + 2, 1, 10)
        ELSE IF loc > 320 THEN clamp(firstScore + 1, 1, 10)
        ELSE firstScore
      patternIssues ==
        Flatten([i \in 1..Len(ISSUE_PATTERNS) |->
          IF file.hits[i] = 0 THEN <<>>
          ELSE << [severity |-> ISSUE_PATTERNS[i].severity,
                   title |-> ISSUE_PATTERNS[i].title,
                   description |-> ISSUE_PATTERNS[i].description
                      \o <<" ", "Found", " ", ToString(file.hits[i]), " ", "indicator(s) in this file.">>,
                   recommendation |-> ISSUE_PATTERNS[i].recommendation,
                   type |-> ISSUE_PATTERNS[i].type] >>])
      sizeIssues ==
        IF loc > 600 THEN
          << [severity |-> S("High"), title |-> S("Oversized file complexity"),
              description |-> S("This file exceeds 600 lines, which raises maintenance cost and review latency."),
              recommendation |-> S("Refactor into focused modules with clearer ownership boundaries."),
              type |-> "quality"] >>
        ELSE IF loc > 380 THEN
          << [severity |-> S("Medium"), title |-> S("Large file needs decomposition"),
              description |-> S("The file is large enough to increase regression risk during changes."),
              recommendation |-> S("Split responsibilities by domain or layer to reduce cognitive load."),
              type |-> "quality"] >>
        ELSE <<>>
      commentIssues ==
        IF 100 * commentRatio.n < 2 * commentRatio.d /\ loc > 120 THEN
          << [severity |-> S("Low"), title |-> S("Low in-code documentation"),
              description |-> S("Complex sections appear under-documented, slowing onboarding and incident triage."),
              recommendation |-> S("Add concise comments around critical flows and assumptions."),
              type |-> "documentation"] >>
        ELSE <<>>
  IN [path |-> file.path,
      loc |-> loc,
      commentRatio |-> commentRatio,
      complexityScore |-> complexityScore,
      issues |-> dedupeIssues(patternIssues \o sizeIssues \o commentIssues)]

\* file.path.includes('/') ? file.path.split('/')[0] : '(root)'
RootOf(path) ==
  LET RECURSIVE First(_)
      First(p) == IF p = <<>> \/ Head(p) = "/" THEN <<>> ELSE <<Head(p)>> \o First(Tail(p))
  IN IF "/" \in Range(path) THEN First(path) ELSE S("(root)")

scoreArchitecture(files, largeFiles) ==
  IF Len(files) = 0 THEN 40
  ELSE LET roots == {RootOf(files[i].path) : i \in 1..Len(files)}
           count(r) == Cardinality({i \in 1..Len(files) : RootOf(files[i].path) = r})
           busiestRoot == CHOOSE m \in {count(r) : r \in roots} :
                            \A r \in roots : count(r) <= m
           n == Len(files)
       IN clamp(Round(92 * n - 26 * busiestRoot - 3 * largeFiles * n
                      + 2 * Min(Cardinality(roots), 6) * n, n), 25, 96)

(* ---------------------------------------------------------------------- *)
(* localAnalyzer.js: the baseline Report                                   *)
(* ---------------------------------------------------------------------- *)

buildDominantRisks(issueCounts, securityFindings, lowCommentFiles, largeFiles, avgComplexity) ==
  Slice(
    (IF securityFindings > 0 \/ issueCounts.Critical > 0
       THEN <<S("Security hardening required in critical paths")>> ELSE <<>>)
    \o (IF avgComplexity.n >= 6 * avgComplexity.d
       THEN <<S("High branching complexity in core files")>> ELSE <<>>)
    \o (IF largeFiles > 2
       THEN <<S("Large file surfaces increase regression probability")>> ELSE <<>>)
    \o (IF lowCommentFiles > 0
       THEN <<S("Sparse documentation around implementation details")>> ELSE <<>>)
    \o (IF issueCounts.High + issueCounts.Critical >= 4
       THEN <<S("Several high-severity issues need prioritized remediation")>> ELSE <<>>),
    4)

\* averageComplexity.toFixed(1)
ToFixed1(x) ==
  LET tenths == Round(10 * x.n, x.d)
  IN <<ToString(tenths \div 10), ".", ToString(tenths % 10)>>

buildSummary(overallScore, riskScore, issueCounts, avgComplexity, topIssues) ==
  IF Len(topIssues) = 0 THEN
    <<"Codebase health is strong with an overall score of", " ", ToString(overallScore),
      "/100.", " ", "No major red flags were found in sampled files.">>
  ELSE
    LET keyIssue == topIssues[1]
    IN <<"Overall score is", " ", ToString(overallScore), "/100 with", " ">>
       \o toLowerCase(deriveRiskLevel(riskScore))
       \o <<" ", "operational risk. Average complexity sits at", " ">>
       \o ToFixed1(avgComplexity)
       \o <<"/10; highest-priority concern is", " ", "\"">> \o keyIssue.title
       \o <<"\"", " ", "(">> \o keyIssue.severity
       \o <<"). Issue distribution:", " ", ToString(issueCounts.Critical), " ", "critical,", " ",
            ToString(issueCounts.High), " ", "high,", " ", ToString(issueCounts.Medium), " ",
            "medium.">>

\* title.includes('Debug residue') holds of exactly one title the analyzer emits,
\* 'Debug residue found'; likewise 'Loose typing'.  The back quotes around
\* "any" in the second entry are left out of the token.
buildQuickWins(topIssues, lowCommentFiles, fileCount) ==
  LET wins ==
        (IF \E i \in 1..Len(topIssues) : topIssues[i].title = S("Debug residue found")
           THEN <<S("Remove debug logs/TODO markers from production code paths.")>> ELSE <<>>)
        \o (IF \E i \in 1..Len(topIssues) : topIssues[i].title = S("Loose typing hotspots")
           THEN <<S("Replace high-traffic any types with explicit interfaces.")>> ELSE <<>>)
        \o (IF lowCommentFiles > 0
           THEN << <<"Add concise comments to", " ", ToString(lowCommentFiles), " ",
                     "low-context file(s).">> >> ELSE <<>>)
        \o (IF fileCount > 20
           THEN <<S("Create ownership tags for key modules to improve review velocity.")>>
           ELSE <<>>)
  IN Slice(IF wins = <<>>
             THEN <<S("Introduce a CI quality gate for linting and vulnerability checks.")>>
             ELSE wins, 5)

buildStrengths(avgComplexity, securityFindings, issueCounts, categoryScores) ==
  LET strengths ==
        (IF avgComplexity.n <= 4 * avgComplexity.d
           THEN <<S("Core files maintain manageable complexity levels.")>> ELSE <<>>)
        \o (IF securityFindings = 0
           THEN <<S("No direct high-confidence secret leakage patterns were detected.")>>
           ELSE <<>>)
        \o (IF issueCounts.Critical = 0 /\ issueCounts.High <= 1
           THEN <<S("High-severity defect density is currently low.")>> ELSE <<>>)
        \o (IF categoryScores["architecture"] >= 75
           THEN <<S("File distribution suggests healthy modular boundaries.")>> ELSE <<>>)
  IN Slice(IF strengths = <<>>
             THEN <<S("Core repository structure is analyzable and remediation-ready.")>>
             ELSE strengths, 4)

buildMilestones(categories) ==
  LET milestones ==
        (IF categories["security"] < 75
           THEN <<S("Run a focused security hardening sprint on auth/input/output boundaries.")>>
           ELSE <<>>)
        \o (IF categories["maintainability"] < 75
           THEN <<S("Refactor high-complexity files into smaller modules with test coverage.")>>
           ELSE <<>>)
        \o (IF categories["documentation"] < 70
           THEN <<S("Add architecture notes and contributor-facing onboarding docs.")>>
           ELSE <<>>)
        \o (IF categories["reliability"] < 75
           THEN <<S("Add failure-path observability and stronger error handling contracts.")>>
           ELSE <<>>)
  IN Slice(IF milestones = <<>>
             THEN <<S("Automate weekly trend reporting to keep quality improvements visible.")>>
             ELSE milestones, 4)

\* title.includes('Oversized file') holds of exactly 'Oversized file complexity'
estimateEffort(issue) ==
  IF issue.severity = S("Critical") THEN S("Medium")
  ELSE IF issue.title = S("Oversized file complexity") THEN S("High")
  ELSE IF issue.severity = S("High") THEN S("Medium")
  ELSE S("Low")

\* const x = value; ...rest: the value is computed once and named in the rest
With(value, Rest(_)) == Rest(value)

\* analyses.flatMap(file => file.issues.map(issue => ({...issue, file, complexityScore})))
flattenIssues(analyses) ==
  Flatten([i \in 1..Len(analyses) |->
    [j \in 1..Len(analyses[i].issues) |->
       [severity |-> analyses[i].issues[j].severity,
        title |-> analyses[i].issues[j].title,
        description |-> analyses[i].issues[j].description,
        recommendation |-> analyses[i].issues[j].recommendation,
        type |-> analyses[i].issues[j].type,
        file |-> analyses[i].path,
        complexityScore |-> analyses[i].complexityScore]]])

countSeverity(allIssues, sev) ==
  Cardinality({k \in 1..Len(allIssues) : allIssues[k].severity = S(sev)})

\* the counters of buildLocalReport; averageComplexity and issueDensity are
\* kept as fractions over the file count
localSignals(analyses, allIssues) ==
  [n |-> Len(analyses),
   d |-> Max(Len(analyses), 1),
   totalLoc |-> SumSeq([i \in 1..Len(analyses) |-> analyses[i].loc]),
   issueCounts |-> [Critical |-> countSeverity(allIssues, "Critical"),
                    High |-> countSeverity(allIssues, "High"),
                    Medium |-> countSeverity(allIssues, "Medium"),
                    Low |-> countSeverity(allIssues, "Low")],
   securityFindings |->
     Cardinality({k \in 1..Len(allIssues) : allIssues[k].type = "security"}),
   reliabilityFindings |->
     Cardinality({k \in 1..Len(allIssues) : allIssues[k].type = "reliability"}),
   averageComplexity |->
     [n |-> SumSeq([i \in 1..Len(analyses) |-> analyses[i].complexityScore]),
      d |-> Max(Len(analyses), 1)],
   issueDensity |-> [n |-> Len(allIssues), d |-> Max(Len(analyses), 1)],
   largeFiles |-> Cardinality({i \in 1..Len(analyses) : analyses[i].loc > 320}),
   lowCommentFiles |->
     Cardinality({i \in 1..Len(analyses) :
                    /\ 100 * analyses[i].commentRatio.n < 3 * analyses[i].commentRatio.d
                    /\ analyses[i].loc > 80}),
   ratioSum |-> FracSum([i \in 1..Len(analyses) |-> analyses[i].commentRatio])]

localCategoryScores(files, sig) ==
  [key \in CategorySet |->
    CASE key = "maintainability" ->
           clamp(Round(96 * sig.d - 6 * sig.averageComplexity.n - 5 * sig.issueDensity.n
                       - 2 * sig.largeFiles * sig.d, sig.d), 20, 98)
      [] key = "reliability" ->
           clamp(95 - sig.issueCounts.Critical * 14 - sig.issueCounts.High * 8
                 - sig.reliabilityFindings * 4, 15, 97)
      [] key = "security" ->
           clamp(96 - sig.issueCounts.Critical * 18 - sig.securityFindings * 8
                 - sig.issueCounts.High * 3, 10, 98)
      [] key = "documentation" ->
           clamp(IF sig.n = 0 THEN 70 - sig.lowCommentFiles * 5
                 ELSE Round((70 - sig.lowCommentFiles * 5) * sig.ratioSum.d * sig.n
                            + 180 * sig.ratioSum.n,
                            sig.ratioSum.d * sig.n), 20, 96)
      [] key = "architecture" -> scoreArchitecture(files, sig.largeFiles)]

localOverallScore(categoryScores) ==
  clamp(Round(30 * categoryScores["maintainability"] + 25 * categoryScores["reliability"]
              + 25 * categoryScores["security"] + 10 * categoryScores["documentation"]
              + 10 * categoryScores["architecture"], 100), 10, 99)

localRiskScore(overallScore, sig) ==
  clamp(Round((100 - overallScore) * 65
              + (sig.issueCounts.Critical * 12 + sig.issueCounts.High * 7
                 + sig.securityFindings * 4) * 100,
              100), 5, 100)

issueBefore(a, b) ==
  \/ SEVERITY_ORDER(a.severity) > SEVERITY_ORDER(b.severity)
  \/ /\ SEVERITY_ORDER(a.severity) = SEVERITY_ORDER(b.severity)
     /\ a.complexityScore > b.complexityScore

\* the first twelve issues in file order, without the sort
localTopIssuesUnsorted(allIssues) ==
  Map(Slice(allIssues, 12),
      LAMBDA issue : [file |-> issue.file, title |-> issue.title,
                      description |-> issue.description, severity |-> issue.severity,
                      recommendation |-> issue.recommendation])

localTopIssues(allIssues) ==
  Map(Slice(StableSort(allIssues, issueBefore), 12),
      LAMBDA issue : [file |-> issue.file, title |-> issue.title,
                      description |-> issue.description, severity |-> issue.severity,
                      recommendation |-> issue.recommendation])

localPriorityFixes(topIssues) ==
  Map(Slice(topIssues, 6),
      LAMBDA issue :
        [file |-> issue.file, suggestion |-> issue.recommendation,
         impact |-> IF issue.severity = S("Critical") \/ issue.severity = S("High")
                    THEN S("High") ELSE S("Medium"),
         effort |-> estimateEffort(issue), rationale |-> issue.title])

fileBefore(a, b) ==
  \/ a.complexityScore > b.complexityScore
  \/ a.complexityScore = b.complexityScore /\ a.loc > b.loc

localHeatmap(analyses) ==
  Map(Slice(StableSort(analyses, fileBefore), 20),
      LAMBDA file :
        [file |-> file.path, complexityScore |-> file.complexityScore,
         issues |-> Len(file.issues), loc |-> file.loc,
         risk |-> deriveRiskLevel(clamp(file.complexityScore * 10 + Len(file.issues) * 4,
                                        5, 100))])

localConfidence(files, totalLoc) ==
  clamp(Round(42 * 1800 + Min(Len(files), 28) * 3060 + Min(totalLoc, 9000) * 10, 1800),
        45, 96)

buildLocalReport(snapshot) ==
  With(Map(snapshot.files, analyzeFile), LAMBDA analyses :
  With(flattenIssues(analyses), LAMBDA allIssues :
  With(localSignals(analyses, allIssues), LAMBDA sig :
  With(localCategoryScores(snapshot.files, sig), LAMBDA categoryScores :
  With(localOverallScore(categoryScores), LAMBDA overallScore :
  With(localRiskScore(overallScore, sig), LAMBDA riskScore :
  With(localTopIssues(allIssues), LAMBDA topIssues :
    [reportVersion |-> S("2.0"),
     project |-> snapshot.project,
     overallScore |-> overallScore,
     grade |-> deriveGrade(overallScore),
     confidence |-> localConfidence(snapshot.files, sig.totalLoc),
     summary |-> buildSummary(overallScore, riskScore, sig.issueCounts,
                              sig.averageComplexity, topIssues),
     categories |-> categoryScores,
     risk |-> [level |-> deriveRiskLevel(riskScore), score |-> riskScore,
               dominantRisks |->
                 buildDominantRisks(sig.issueCounts, sig.securityFindings,
                                    sig.lowCommentFiles, sig.largeFiles,
                                    sig.averageComplexity)],
     heatmap |-> localHeatmap(analyses),
     topIssues |-> topIssues,
     priorityFixes |-> localPriorityFixes(topIssues),
     quickWins |-> buildQuickWins(topIssues, sig.lowCommentFiles, Len(analyses)),
     strengths |-> buildStrengths(sig.averageComplexity, sig.securityFindings,
                                  sig.issueCounts, categoryScores),
     nextMilestones |-> buildMilestones(categoryScores),
     analysisMeta |-> [provider |-> S("local-heuristics"), model |-> S("rule-engine-v2"),
                       filesAnalyzed |-> Len(snapshot.files), estimatedLoc |-> sig.totalLoc,
                       fallbackUsed |-> FALSE, sampling |-> snapshot.stats]])))))))

(* ---------------------------------------------------------------------- *)
(* Process configuration (process.env), fixed for the lifetime of a request *)
(* ---------------------------------------------------------------------- *)

VARIABLES
  env,        \* process.env: AI_PROVIDER, GEMINI_API_KEY, GROQ_API_KEY, SCORE_BASE_WEIGHT
  baseline,   \* the Report of buildLocalReport(snapshot) handed to enrichReportWithAI
  pc,         \* where the request is: "start", "sequential", "hybrid", "done"
  plan,       \* resolveExecutionPlan(): [mode, providers, requested]
  index,      \* runSequentialFlow: position of the loop in providers
  settled,    \* per provider, its call: idle, pending, fulfilled or rejected
  lastError,  \* runSequentialFlow: lastError
  calls,      \* the providers called so far, in call order
  responses,  \* per provider, what it did with its request (one of Outcomes)
  completions, \* runHybridFlow: the providers in the order their calls settled
  result      \* what the promise of enrichReportWithAI settled with

vars ==
  <<env, baseline, pc, plan, index, settled, lastError, calls, responses, completions, result>>

\* Boolean(value) of an environment variable
\* Boolean(x) read as "x is set": the empty string passes
TruthyString(x) == x.t = "str"

\* Boolean(x) of a configuration value: a non-empty string
Truthy(x) == x.t = "str" /\ x.v # <<>>

\* Number(raw) of the SCORE_BASE_WEIGHT texts of the model, in hundredths
ToNumber(raw) ==
  IF raw.t = "undef" THEN NaN
  ELSE IF raw.v = <<>> THEN Num(0)
  ELSE IF raw.v = S("0.8") THEN Num(80)
  ELSE IF raw.v = S("0.3") THEN Num(30)
  ELSE IF raw.v = S("1.5") THEN Num(150)
  ELSE NaN

\* parseWeight(raw, fallback), in hundredths
parseWeight(raw, fallback) ==
  LET parsed == ToNumber(raw)
  IN IF ~IsFinite(parsed) THEN fallback ELSE clamp(parsed.v, 50, 95)

SCORE_BASE_WEIGHT == parseWeight(env.SCORE_BASE_WEIGHT, 70)

SCORE_AI_WEIGHT == 100 - SCORE_BASE_WEIGHT

(* ---------------------------------------------------------------------- *)
(* aiEnhancer.js: normalisation of candidate lists                         *)
(* ---------------------------------------------------------------------- *)

\* blendScore with the clamp left out
blendScoreUnclamped(baseScore, aiScore) ==
  Round(baseScore * 10 * SCORE_BASE_WEIGHT + aiScore * SCORE_AI_WEIGHT, 1000)

\* blendScore(baseScore, aiScore): baseScore an integer score of the baseline,
\* aiScore a finite number in tenths (both call sites pass finite numbers, so
\* the two Number.isFinite tests of blendScore take their first branch)
blendScore(baseScore, aiScore) ==
  clamp(Round(baseScore * 10 * SCORE_BASE_WEIGHT + aiScore * SCORE_AI_WEIGHT, 1000), 0, 100)

NotNull(str) == str # NullStr

\* an issue normalised with the stock recommendation in every case
normalizeIssueStockAdvice(item) ==
  [file |-> OrElse(sanitizeText(Member(item, "file")), S("Unknown file")),
   title |-> OrElse(sanitizeText(Member(item, "title")), S("Untitled issue")),
   description |-> OrElse(sanitizeText(Member(item, "description")), S("No description provided.")),
   severity |-> sanitizeSeverity(Member(item, "severity")),
   recommendation |-> S("Review this issue and implement an explicit fix.")]

normalizeIssue(item) ==
  [file |-> OrElse(sanitizeText(Member(item, "file")), S("Unknown file")),
   title |-> OrElse(sanitizeText(Member(item, "title")), S("Untitled issue")),
   description |-> OrElse(sanitizeText(Member(item, "description")), S("No description provided.")),
   severity |-> sanitizeSeverity(Member(item, "severity")),
   recommendation |-> OrElse(sanitizeText(Member(item, "recommendation")),
                             S("Review this issue and implement an explicit fix."))]

normalizeIssues(issues, fallback) ==
  IF ~IsArray(issues) \/ Len(issues.v) = 0 THEN fallback
  ELSE LET normalized == Slice(Map(Filter(issues.v, IsObjectLike), normalizeIssue), 12)
       IN IF Len(normalized) > 0 THEN normalized ELSE fallback

normalizeFix(item) ==
  [file |-> OrElse(sanitizeText(Member(item, "file")), S("Unknown file")),
   suggestion |-> OrElse(sanitizeText(Member(item, "suggestion")),
                         S("Implement targeted quality improvement.")),
   impact |-> sanitizeImpact(Member(item, "impact")),
   effort |-> sanitizeEffort(Member(item, "effort")),
   rationale |-> OrElse(sanitizeText(Member(item, "rationale")),
                        S("Improves quality, resilience, or security."))]

normalizeFixes(fixes, fallback) ==
  IF ~IsArray(fixes) \/ Len(fixes.v) = 0 THEN fallback
  ELSE LET normalized == Slice(Map(Filter(fixes.v, IsObjectLike), normalizeFix), 6)
       IN IF Len(normalized) > 0 THEN normalized ELSE fallback

normalizeStringArray(candidate, limit, fallback) ==
  IF ~IsArray(candidate) \/ Len(candidate.v) = 0 THEN fallback
  ELSE LET normalized == Slice(Filter(Map(candidate.v, sanitizeText), NotNull), limit)
       IN IF Len(normalized) > 0 THEN normalized ELSE fallback

(* ---------------------------------------------------------------------- *)
(* aiEnhancer.js: single-candidate merge                                   *)
(* A merge yields [threw |-> FALSE, report |-> r], or [threw |-> TRUE] when *)
(* a property read raised a TypeError.                                     *)
(* ---------------------------------------------------------------------- *)

Threw(x) == x.t = "TypeError"

\* the overallScore of mergeReports with the five categories weighted alike
mergedOverallScoreEqualWeights(mergedCategories) ==
  clamp(Round(20 * mergedCategories["maintainability"] + 20 * mergedCategories["reliability"]
              + 20 * mergedCategories["security"] + 20 * mergedCategories["documentation"]
              + 20 * mergedCategories["architecture"], 100), 10, 99)

\* the overallScore of mergeReports, from its merged categories
mergedOverallScore(mergedCategories) ==
  clamp(Round(30 * mergedCategories["maintainability"] + 25 * mergedCategories["reliability"]
              + 25 * mergedCategories["security"] + 10 * mergedCategories["documentation"]
              + 10 * mergedCategories["architecture"], 100), 10, 99)

mergeReports(base, candidate) ==
  LET candCategories == OptMember(candidate, "categories")
      nextValue(key) == OptMember(candCategories, key)
      mergedCategories ==
        [key \in CategorySet |->
          IF IsFinite(nextValue(key)) THEN blendScore(base.categories[key], nextValue(key).v)
          ELSE base.categories[key]]
      overallScore == mergedOverallScore(mergedCategories)
      candRisk == OptMember(candidate, "risk")
      guardScore == OptMember(candRisk, "score")
      riskScore ==
        IF IsFinite(guardScore)
        THEN blendScore(base.risk.score, Member(Member(candidate, "risk"), "score").v)
        ELSE base.risk.score
      reads == <<candCategories, candRisk, guardScore,
                 OptMember(candidate, "summary"), OptMember(candRisk, "level"),
                 OptMember(candRisk, "dominantRisks"), OptMember(candidate, "topIssues"),
                 OptMember(candidate, "priorityFixes"), OptMember(candidate, "quickWins"),
                 OptMember(candidate, "strengths"), OptMember(candidate, "nextMilestones")>>
  IN IF \E i \in 1..Len(reads) : Threw(reads[i]) THEN [threw |-> TRUE]
     ELSE
       [threw |-> FALSE,
        report |->
          [base EXCEPT
            !.summary = OrElse(sanitizeText(OptMember(candidate, "summary")), base.summary),
            !.categories = mergedCategories,
            !.overallScore = overallScore,
            !.grade = deriveGrade(overallScore),
            !.risk = [score |-> riskScore,
                      level |-> OrElse(sanitizeRiskLevel(OptMember(candRisk, "level")),
                                       deriveRiskLevel(riskScore)),
                      dominantRisks |->
                        normalizeStringArray(OptMember(candRisk, "dominantRisks"), 4,
                                             base.risk.dominantRisks)],
            !.topIssues = normalizeIssues(OptMember(candidate, "topIssues"), base.topIssues),
            !.priorityFixes =
              normalizeFixes(OptMember(candidate, "priorityFixes"), base.priorityFixes),
            !.quickWins = normalizeStringArray(OptMember(candidate, "quickWins"), 6, base.quickWins),
            !.strengths = normalizeStringArray(OptMember(candidate, "strengths"), 5, base.strengths),
            !.nextMilestones =
              normalizeStringArray(OptMember(candidate, "nextMilestones"), 5, base.nextMilestones)]]

(* ---------------------------------------------------------------------- *)
(* aiEnhancer.js: helpers of the hybrid consensus merge                    *)
(* ---------------------------------------------------------------------- *)

\* dedupeBy(items, getKey): the first item of each key, in order
dedupeBy(items, getKey(_)) ==
  LET keys == Map(items, getKey)
  IN Pick(items, {i \in 1..Len(items) : \A j \in 1..(i - 1) : keys[j] # keys[i]})

\* uniqueStrings(items) for an array of strings
uniqueStrings(items) ==
  dedupeBy(Filter(Map(items, LAMBDA item : sanitizeText(Str(item))), NotNull), toLowerCase)

\* Math.round(average(values)) for a non-empty array of integers
roundedAverage(values) == Round(SumSeq(values), Len(values))

\* mostFrequent(values): the first-seen value among those with the highest count
mostFrequent(values) ==
  IF Len(values) = 0 THEN NullStr
  ELSE LET count(v) == Cardinality({i \in 1..Len(values) : values[i] = v})
           \* Map iteration order: order of first insertion
           keys == dedupeBy(values, LAMBDA v : v)
           RECURSIVE Scan(_, _, _)
           Scan(rest, winner, max) ==
             IF rest = <<>> THEN winner
             ELSE IF count(Head(rest)) > max THEN Scan(Tail(rest), Head(rest), count(Head(rest)))
                  ELSE Scan(Tail(rest), winner, max)
       IN Scan(keys, NullStr, -1)

\* The tokens of the file names of the model, in the order of the 'en' collation
\* (white space and punctuation before letters, letters without regard to case)
CollationOrder ==
  <<" ", "(root)", "/", ".js", "a", "b", "c", "d", "e", "f", "g", "h", "i", "j", "k", "l",
    "lib", "m", "n", "o", "p", "q", "r", "s", "src", "t", "u", "Unknown file", "v", "w", "x",
    "y", "z">>

CollationRank(tok) == CHOOSE i \in 1..Len(CollationOrder) : CollationOrder[i] = tok

\* a.localeCompare(b, 'en'): negative, zero or positive
RECURSIVE localeCompare(_, _)
localeCompare(a, b) ==
  IF a = <<>> /\ b = <<>> THEN 0
  ELSE IF a = <<>> THEN -1
  ELSE IF b = <<>> THEN 1
  ELSE IF Head(a) = Head(b) THEN localeCompare(Tail(a), Tail(b))
  ELSE CollationRank(Head(a)) - CollationRank(Head(b))

mergeIssueSets(base, candidates) ==
  LET combined ==
        base.topIssues
        \o Flatten(Map(candidates,
             LAMBDA item : normalizeIssues(OptMember(item.parsed, "topIssues"), <<>>)))
      deduped ==
        dedupeBy(combined,
          LAMBDA issue : OrElse(sanitizeText(Str(issue.file)), S("Unknown file")) \o S("::")
                         \o OrElse(sanitizeText(Str(issue.title)), S("Untitled issue")))
      mapped ==
        Map(deduped,
          LAMBDA issue :
            [file |-> OrElse(sanitizeText(Str(issue.file)), S("Unknown file")),
             title |-> OrElse(sanitizeText(Str(issue.title)), S("Untitled issue")),
             description |-> OrElse(sanitizeText(Str(issue.description)),
                                    S("No description provided.")),
             severity |-> sanitizeSeverity(Str(issue.severity)),
             recommendation |-> OrElse(sanitizeText(Str(issue.recommendation)),
                                       S("Review this issue and implement an explicit fix."))])
      sorted ==
        Slice(StableSort(mapped,
                LAMBDA a, b :
                  \/ SEVERITY_RANK(a.severity) > SEVERITY_RANK(b.severity)
                  \/ /\ SEVERITY_RANK(a.severity) = SEVERITY_RANK(b.severity)
                     /\ localeCompare(a.file, b.file) < 0), 12)
  IN IF Len(sorted) > 0 THEN sorted ELSE base.topIssues

mergeFixSets(base, candidates) ==
  LET combined ==
        base.priorityFixes
        \o Flatten(Map(candidates,
             LAMBDA item : normalizeFixes(OptMember(item.parsed, "priorityFixes"), <<>>)))
      deduped ==
        dedupeBy(combined,
          LAMBDA fix : OrElse(sanitizeText(Str(fix.file)), S("Unknown file")) \o S("::")
                       \o OrElse(sanitizeText(Str(fix.suggestion)), S("General improvement")))
      mapped ==
        Map(deduped,
          LAMBDA fix :
            [file |-> OrElse(sanitizeText(Str(fix.file)), S("Unknown file")),
             suggestion |-> OrElse(sanitizeText(Str(fix.suggestion)),
                                   S("Implement targeted quality improvement.")),
             impact |-> sanitizeImpact(Str(fix.impact)),
             effort |-> sanitizeEffort(Str(fix.effort)),
             rationale |-> OrElse(sanitizeText(Str(fix.rationale)),
                                  S("Improves quality, resilience, or security."))])
      sorted ==
        Slice(StableSort(mapped,
                LAMBDA a, b :
                  \/ IMPACT_RANK(a.impact) > IMPACT_RANK(b.impact)
                  \/ /\ IMPACT_RANK(a.impact) = IMPACT_RANK(b.impact)
                     /\ \/ EFFORT_RANK(a.effort) > EFFORT_RANK(b.effort)
                        \/ /\ EFFORT_RANK(a.effort) = EFFORT_RANK(b.effort)
                           /\ localeCompare(a.file, b.file) < 0), 6)
  IN IF Len(sorted) > 0 THEN sorted ELSE base.priorityFixes

buildConsensusSummary(candidateSummaries, fallback) ==
  LET unique == uniqueStrings(candidateSummaries)
  IN IF Len(unique) = 0 THEN fallback
     ELSE IF Len(unique) = 1 THEN unique[1]
     ELSE unique[1] \o <<" ", "Consensus view:", " ">> \o unique[2]

(* ---------------------------------------------------------------------- *)
(* aiEnhancer.js: hybrid consensus merge                                   *)
(* ---------------------------------------------------------------------- *)

\* the overallScore of mergeHybridReports, from its consensus categories
consensusOverallScore(categoryScores) ==
  clamp(Round(30 * categoryScores["maintainability"] + 25 * categoryScores["reliability"]
              + 25 * categoryScores["security"] + 10 * categoryScores["documentation"]
              + 10 * categoryScores["architecture"], 100), 10, 99)

mergeHybridReports(base, candidates) ==
  LET valuesOf(key) ==
        Map(Filter(Map(candidates,
                       LAMBDA item : OptMember(OptMember(item.parsed, "categories"), key)),
                   IsFinite),
            LAMBDA value : clamp(RoundTenths(value.v), 0, 100))
      categoryScores ==
        [key \in CategorySet |->
          IF Len(valuesOf(key)) = 0 THEN base.categories[key]
          ELSE blendScore(base.categories[key], 10 * roundedAverage(valuesOf(key)))]
      overallScore == consensusOverallScore(categoryScores)
      riskValues ==
        Map(Filter(Map(candidates,
                       LAMBDA item : OptMember(OptMember(item.parsed, "risk"), "score")),
                   IsFinite),
            LAMBDA value : clamp(RoundTenths(value.v), 0, 100))
      riskScore ==
        IF Len(riskValues) = 0 THEN base.risk.score
        ELSE blendScore(base.risk.score, 10 * roundedAverage(riskValues))
      riskVotes ==
        Filter(Map(candidates,
                   LAMBDA item : sanitizeRiskLevel(OptMember(OptMember(item.parsed, "risk"), "level"))),
               NotNull)
      riskLevel == OrElse(mostFrequent(riskVotes), deriveRiskLevel(riskScore))
      union(baseList, field, inRisk) ==
        uniqueStrings(
          baseList
          \o Flatten(Map(candidates,
               LAMBDA item :
                 normalizeStringArray(
                   OptMember(IF inRisk THEN OptMember(item.parsed, "risk") ELSE item.parsed, field),
                   6, <<>>))))
      candidateSummaries ==
        Filter(Map(candidates, LAMBDA item : sanitizeText(OptMember(item.parsed, "summary"))),
               NotNull)
      reads ==
        Flatten(Map(candidates,
          LAMBDA item :
            <<OptMember(item.parsed, "categories"), OptMember(item.parsed, "risk"),
              OptMember(item.parsed, "summary"), OptMember(item.parsed, "topIssues"),
              OptMember(item.parsed, "priorityFixes"), OptMember(item.parsed, "quickWins"),
              OptMember(item.parsed, "strengths"), OptMember(item.parsed, "nextMilestones")>>))
  IN IF \E i \in 1..Len(reads) : Threw(reads[i]) THEN [threw |-> TRUE]
     ELSE
       [threw |-> FALSE,
        report |->
          [base EXCEPT
            !.summary = buildConsensusSummary(candidateSummaries, base.summary),
            !.categories = categoryScores,
            !.overallScore = overallScore,
            !.grade = deriveGrade(overallScore),
            !.risk = [score |-> riskScore, level |-> riskLevel,
                      dominantRisks |->
                        Slice(union(base.risk.dominantRisks, "dominantRisks", TRUE), 4)],
            !.topIssues = mergeIssueSets(base, candidates),
            !.priorityFixes = mergeFixSets(base, candidates),
            !.quickWins = Slice(union(base.quickWins, "quickWins", FALSE), 6),
            !.strengths = Slice(union(base.strengths, "strengths", FALSE), 5),
            !.nextMilestones = Slice(union(base.nextMilestones, "nextMilestones", FALSE), 5)]]

(* ---------------------------------------------------------------------- *)
(* aiEnhancer.js: failure reasons and report metadata                      *)
(* ---------------------------------------------------------------------- *)

\* An Error is [message |-> string]; every value the provider calls and
\* JSON.parse throw is an Error.
extractErrorMessage(error) == error.message

\* a failure reason that reports the first failure only
buildFailureReasonFirstOnly(failures, prefix) ==
  IF Len(failures) = 0 THEN NullStr
  ELSE LET details == Filter(Map(failures, extractErrorMessage), NotNull)
       IN IF Len(details) = 0 THEN prefix
          ELSE prefix \o S(" ") \o details[1]

buildFailureReason(failures, prefix) ==
  IF Len(failures) = 0 THEN NullStr
  ELSE LET details == Filter(Map(failures, extractErrorMessage), NotNull)
       IN IF Len(details) = 0 THEN prefix
          ELSE prefix \o S(" ") \o Join(details, <<" ", "|", " ">>)

\* withMeta: {...report, analysisMeta: {...report.analysisMeta, provider, model, ...}}
\* analysisMeta built from the new fields alone, without the Report's own
withMetaReplaced(report, provider, model, fallbackUsed, fallbackReason) ==
  [report EXCEPT
    !.analysisMeta =
      [provider |-> provider, model |-> model, fallbackUsed |-> fallbackUsed,
       fallbackReason |-> fallbackReason, stabilityMode |-> S("anchored"),
       scoreWeights |-> [local |-> SCORE_BASE_WEIGHT, ai |-> SCORE_AI_WEIGHT]]]

withMeta(report, provider, model, fallbackUsed, fallbackReason) ==
  [report EXCEPT
    !.analysisMeta =
      [provider |-> provider, model |-> model, fallbackUsed |-> fallbackUsed,
       fallbackReason |-> fallbackReason, stabilityMode |-> S("anchored"),
       scoreWeights |-> [local |-> SCORE_BASE_WEIGHT, ai |-> SCORE_AI_WEIGHT]]
      @@ report.analysisMeta]

(* ---------------------------------------------------------------------- *)
(* aiEnhancer.js: provider calls and response parsing                      *)
(*                                                                         *)
(* What a provider does with a request is an input: the call throws        *)
(* (kind "throw": fetch or the SDK rejects), answers with a non-2xx status *)
(* (kind "status", Gemini's fetch only) or answers with a text (kind       *)
(* "text").  A response text is a string; its tokens are "{", "}", " ",    *)
(* prose, JSON literals without braces, and object bodies: the token       *)
(* BodyToken(i) is the text between the outer braces of the serialization  *)
(* of the object ObjectBodies[i] (the braces nested inside a body are      *)
(* balanced and are not separate tokens).                                  *)
(* ---------------------------------------------------------------------- *)

Providers == {"gemini", "groq"}

Error(message) == [message |-> message]

NoError == [message |-> NullStr]

BodyToken(i) == "body" \o ToString(i)

(* The objects providers answer with. *)

MaxItems == 13

Letters ==
  <<"a", "b", "c", "d", "e", "f", "g", "h", "i", "j", "k", "l", "m",
    "n", "o", "p", "q", "r", "s", "t", "u", "v", "w", "x", "y", "z">>

Cycle(values, i) == values[((i - 1) % Len(values)) + 1]

IssueItem(i, dir) ==
  Obj([file |-> Str(<<dir, "/", Letters[i], ".js">>),
       title |-> Str(S("Issue " \o ToString(i))),
       description |-> Cycle(<<Str(S("Details")), Null, Str(<<" ">>)>>, i),
       severity |-> Cycle(<<Str(S("Critical")), Str(<<" ", "High">>), Str(S("Low")),
                            Str(S("Blocker")), Num(30), Str(S("Medium"))>>, i),
       recommendation |-> Cycle(<<Str(<<"Do", " ", "it">>), Num(10)>>, i)])

FixItem(i, dir) ==
  Obj([file |-> Str(<<dir, "/", Letters[i], ".js">>),
       suggestion |-> Str(S("Fix " \o ToString(i))),
       impact |-> Cycle(<<Str(S("Medium")), Str(S("High")), Str(S("Low")), Null>>, i),
       effort |-> Cycle(<<Str(S("High")), Str(S("Low")), Str(S("Huge")), Str(S("Medium")), Null>>, i),
       rationale |-> Cycle(<<Str(S("Because")), Null>>, i)])

TextItem(i, dir) ==
  IF i = 1 THEN Str(S(IF dir = "src" THEN "Add Tests" ELSE "add tests"))
  ELSE IF i = 2 THEN Str(<<" ", "Pin Deps", " ">>)
  ELSE Str(<<dir, ToString(i)>>)

\* an object whose lists all hold n entries
ListPayload(n, dir) ==
  Obj([summary |-> Str(<<" ", "Summary by", " ", dir, " ">>),
       risk |-> Obj([dominantRisks |-> Arr([i \in 1..n |-> TextItem(i, dir)])]),
       heatmap |-> Arr([i \in 1..n |-> Obj([file |-> Str(S("x")), complexityScore |-> Num(990)])]),
       topIssues |-> Arr([i \in 1..n |-> IssueItem(i, dir)]),
       priorityFixes |-> Arr([i \in 1..n |-> FixItem(i, dir)]),
       quickWins |-> Arr([i \in 1..n |-> TextItem(i, dir)]),
       strengths |-> Arr([i \in 1..n |-> TextItem(i, dir)]),
       nextMilestones |-> Arr([i \in 1..n |-> TextItem(i, dir)])])

\* an object whose scores all are the number x (in tenths)
ScorePayload(x) ==
  Obj([categories |-> Obj([key \in CategorySet |-> Num(x)]),
       risk |-> Obj([score |-> Num(x)]),
       overallScore |-> Num(x),
       grade |-> Str(S("A+"))])

LevelPayload(level, x) ==
  Obj([risk |-> Obj([score |-> Num(x), level |-> level])])

MixedPayload ==
  Obj([categories |-> Obj([maintainability |-> Num(1000), reliability |-> Str(S("90")),
                           security |-> Infinity, documentation |-> Null]),
       risk |-> Obj([score |-> Str(S("12")), level |-> Num(3), dominantRisks |-> Str(S("none"))]),
       summary |-> Num(70),
       overallScore |-> Num(990),
       grade |-> Str(S("A+")),
       analysisMeta |-> Obj([provider |-> Str(S("candidate")), fallbackUsed |-> Null]),
       topIssues |-> Arr(<<Null, Num(10), Str(S("issue")), Arr(<<>>)>>),
       priorityFixes |-> Obj([file |-> Str(S("x"))]),
       quickWins |-> Arr(<<Num(10), Str(<<" ">>), Null>>),
       strengths |-> Str(S("many")),
       nextMilestones |-> Null])

WrongTypes ==
  Obj([categories |-> Str(S("good")), risk |-> Num(50), summary |-> Str(<<" ">>),
       topIssues |-> Str(S("none")), priorityFixes |-> Arr(<<Num(10)>>)])

MaxFiles == 21

NoHits == <<0, 0, 0, 0, 0, 0>>

\* the i-th file of a snapshot, of one of five kinds
MkFile(kind, i) ==
  CASE kind = "clean" ->
         [path |-> <<"src", "/", Letters[i], ".js">>, loc |-> 40, commentLines |-> 6,
          signals |-> 0, hits |-> NoHits]
    [] kind = "risky" ->
         [path |-> <<"lib", "/", Letters[i], ".js">>, loc |-> 150, commentLines |-> 1,
          signals |-> 14, hits |-> <<1, 0, 3, 0, 0, 0>>]
    [] kind = "mid" ->
         [path |-> <<"src", "/", Letters[i], ".js">>, loc |-> 400, commentLines |-> 10,
          signals |-> 10, hits |-> <<0, 0, 0, 4, 0, 0>>]
    [] kind = "huge" ->
         [path |-> <<Letters[i], ".js">>, loc |-> 700, commentLines |-> 40,
          signals |-> 90, hits |-> <<0, 1, 0, 2, 1, 1>>]
    [] kind = "worst" ->
         [path |-> <<"src", "/", Letters[i], ".js">>, loc |-> 650, commentLines |-> 2,
          signals |-> 200, hits |-> <<1, 1, 1, 1, 1, 1>>]

MkSnapshot(kinds) ==
  [project |-> "owner/repo",
   files |-> [i \in 1..Len(kinds) |-> MkFile(kinds[i], i)],
   stats |-> [seen |-> Len(kinds) + 3, loaded |-> Len(kinds)]]

\* JSON.parse(JSON.stringify(report)) of the fields a merge reads: the value a
\* provider answers with when its payload is a Report (scores in tenths)
ReportValue(report) ==
  LET strings(list) == Arr([i \in 1..Len(list) |-> Str(list[i])])
  IN Obj([summary |-> Str(report.summary),
          overallScore |-> Num(10 * report.overallScore),
          grade |-> Str(report.grade),
          categories |-> Obj([key \in CategorySet |-> Num(10 * report.categories[key])]),
          risk |-> Obj([score |-> Num(10 * report.risk.score),
                        level |-> Str(report.risk.level),
                        dominantRisks |-> strings(report.risk.dominantRisks)]),
          topIssues |->
            Arr([i \in 1..Len(report.topIssues) |->
                  Obj([file |-> Str(report.topIssues[i].file),
                       title |-> Str(report.topIssues[i].title),
                       description |-> Str(report.topIssues[i].description),
                       severity |-> Str(report.topIssues[i].severity),
                       recommendation |-> Str(report.topIssues[i].recommendation)])]),
          priorityFixes |->
            Arr([i \in 1..Len(report.priorityFixes) |->
                  Obj([file |-> Str(report.priorityFixes[i].file),
                       suggestion |-> Str(report.priorityFixes[i].suggestion),
                       impact |-> Str(report.priorityFixes[i].impact),
                       effort |-> Str(report.priorityFixes[i].effort),
                       rationale |-> Str(report.priorityFixes[i].rationale)])]),
          quickWins |-> strings(report.quickWins),
          strengths |-> strings(report.strengths),
          nextMilestones |-> strings(report.nextMilestones)])

\* Reports that are sanitized already: Reports of the local analyzer for a
\* repository with findings and for a clean one
SanitizedReports ==
  << buildLocalReport(MkSnapshot(<<"huge", "risky", "mid">>)),
     buildLocalReport(MkSnapshot(<<"clean">>)) >>

CandidateNumbers == <<-500, 0, 34, 855, 1000, 99990>>

ObjectBodies ==
  [i \in 1..Len(CandidateNumbers) |-> ScorePayload(CandidateNumbers[i])]
  \o << ListPayload(0, "src"), ListPayload(2, "src"), ListPayload(MaxItems, "src"),
        ListPayload(2, "lib"), ListPayload(MaxItems, "lib"),
        LevelPayload(Str(<<" ", "Critical", " ">>), 0),
        LevelPayload(Str(S("critical")), 1000),
        LevelPayload(Str(S("Low")), 1000),
        MixedPayload, WrongTypes >>
  \o [i \in 1..Len(SanitizedReports) |-> ReportValue(SanitizedReports[i])]

IsBodyToken(tok) == \E i \in 1..Len(ObjectBodies) : tok = BodyToken(i)

ObjectOfBody(tok) == ObjectBodies[CHOOSE i \in 1..Len(ObjectBodies) : tok = BodyToken(i)]

\* the JSON texts without braces of the model, each with the value it denotes
JsonLiterals == {"null", "42", "\"ok\"", "[]"}

ValueOfLiteral(tok) ==
  CASE tok = "null" -> Null
    [] tok = "42" -> Num(420)
    [] tok = "\"ok\"" -> Str(S("ok"))
    [] tok = "[]" -> Arr(<<>>)

ResponseTexts ==
  { <<"{", BodyToken(i), "}">> : i \in 1..Len(ObjectBodies) }
  \cup { <<"Here", " ", "is", " ", "{", BodyToken(4), "}", " ", "done">>,
         <<" ", "{", BodyToken(9), "}", " ">>,
         <<"{", "}">>,
         <<"null">>, <<"42">>, <<"\"ok\"">>, <<"[]">>,
         <<"sorry">>,
         <<"{", BodyToken(1)>>,
         <<>>, <<" ">> }

Outcomes(provider) ==
  { [kind |-> "text", status |-> "", text |-> t] : t \in ResponseTexts }
  \cup { [kind |-> "throw", status |-> "",
          text |-> IF provider = "gemini" THEN S("fetch failed") ELSE S("Connection error.")] }
  \cup (IF provider = "gemini"
        THEN { [kind |-> "status", status |-> "429", text |-> S("quota exceeded")] }
        ELSE {})

\* requestGemini / requestGroq on the provider's outcome:
\* [ok |-> TRUE, text, model] or [ok |-> FALSE, error]
requestGemini(outcome) ==
  LET model == DEFAULT_MODELS("gemini")
  IN IF outcome.kind = "throw" THEN [ok |-> FALSE, error |-> Error(outcome.text)]
     ELSE IF outcome.kind = "status"
       THEN [ok |-> FALSE,
             error |-> Error(<<"Gemini request failed (", outcome.status, "):", " ">>
                             \o outcome.text)]
     ELSE IF Trim(outcome.text) = <<>>
       THEN [ok |-> FALSE, error |-> Error(S("Gemini returned an empty response."))]
     ELSE [ok |-> TRUE, text |-> outcome.text, model |-> model]

requestGroq(outcome) ==
  LET model == DEFAULT_MODELS("groq")
  IN IF outcome.kind = "throw" THEN [ok |-> FALSE, error |-> Error(outcome.text)]
     ELSE IF Trim(outcome.text) = <<>>
       THEN [ok |-> FALSE, error |-> Error(S("Groq returned an empty response."))]
     ELSE [ok |-> TRUE, text |-> outcome.text, model |-> model]

requestCompletion(provider, outcome) ==
  IF provider = "gemini" THEN requestGemini(outcome)
  ELSE IF provider = "groq" THEN requestGroq(outcome)
  ELSE [ok |-> FALSE, error |-> Error(<<"Unsupported provider:", " ", provider>>)]

\* extractFirstJsonObject(text): the span from the first "{" to the "}" that
\* brings the brace depth back to zero, or null (NullStr)
extractFirstJsonObject(text) ==
  LET opens == {i \in 1..Len(text) : text[i] = "{"}
      start == CHOOSE i \in opens : \A j \in opens : i <= j
      RECURSIVE Scan(_, _)
      Scan(idx, depth) ==
        IF idx > Len(text) THEN NullStr
        ELSE LET afterOpen == IF text[idx] = "{" THEN depth + 1 ELSE depth
             IN IF text[idx] = "}"
                THEN IF afterOpen - 1 = 0 THEN SubSeq(text, start, idx)
                     ELSE Scan(idx + 1, afterOpen - 1)
                ELSE Scan(idx + 1, afterOpen)
  IN IF opens = {} THEN NullStr ELSE Scan(start, 0)

\* JSON.parse(text): [ok |-> TRUE, value] or [ok |-> FALSE, error] (a SyntaxError)
JSONParse(text) ==
  LET t == Trim(text)
  IN IF Len(t) = 3 /\ t[1] = "{" /\ IsBodyToken(t[2]) /\ t[3] = "}"
       THEN [ok |-> TRUE, value |-> ObjectOfBody(t[2])]
     ELSE IF t = <<"{", "}">> THEN [ok |-> TRUE, value |-> Obj(<<>>)]
     ELSE IF Len(t) = 1 /\ t[1] \in JsonLiterals
       THEN [ok |-> TRUE, value |-> ValueOfLiteral(t[1])]
     ELSE IF t = <<>> \/ (t[1] = "{" /\ t[Len(t)] # "}")
       THEN [ok |-> FALSE, error |-> Error(S("Unexpected end of JSON input"))]
     ELSE [ok |-> FALSE, error |-> Error(S("Unexpected token in JSON"))]

parseJsonResponse(raw) ==
  LET cleaned == Trim(raw)
      extracted == OrElse(extractFirstJsonObject(cleaned), cleaned)
  IN JSONParse(extracted)

(* ---------------------------------------------------------------------- *)
(* aiEnhancer.js: the execution plan                                       *)
(* ---------------------------------------------------------------------- *)

\* the available providers pushed in the other order
availableProvidersSwapped(hasGemini, hasGroq) ==
  (IF hasGroq THEN <<"groq">> ELSE <<>>) \o (IF hasGemini THEN <<"gemini">> ELSE <<>>)

\* const available = []; if (hasGemini) push('gemini'); if (hasGroq) push('groq')
availableProviders(hasGemini, hasGroq) ==
  (IF hasGemini THEN <<"gemini">> ELSE <<>>) \o (IF hasGroq THEN <<"groq">> ELSE <<>>)

\* a named provider that is planned whether or not it has a credential
namedProviderUnchecked(name, hasKey) == <<name>>

\* providers: hasGemini ? ['gemini'] : []   (and the same for groq)
namedProvider(name, hasKey) == IF hasKey THEN <<name>> ELSE <<>>

resolveExecutionPlan ==
  LET selected ==
        Trim(toLowerCase(IF Truthy(env.AI_PROVIDER) THEN env.AI_PROVIDER.v ELSE S("auto")))
      hasGemini == Truthy(env.GEMINI_API_KEY)
      hasGroq == Truthy(env.GROQ_API_KEY)
      available == availableProviders(hasGemini, hasGroq)
  IN IF \E m \in HYBRID_MODES : selected = S(m)
       THEN IF hasGemini /\ hasGroq
              THEN [mode |-> "hybrid", providers |-> <<"gemini", "groq">>, requested |-> selected]
              ELSE [mode |-> "sequential", providers |-> available, requested |-> selected]
     ELSE IF selected = S("gemini")
       THEN [mode |-> "sequential",
             providers |-> namedProvider("gemini", hasGemini), requested |-> selected]
     ELSE IF selected = S("groq")
       THEN [mode |-> "sequential",
             providers |-> namedProvider("groq", hasGroq), requested |-> selected]
     ELSE [mode |-> "sequential", providers |-> available, requested |-> selected]

(* ---------------------------------------------------------------------- *)
(* Snapshots and configurations a request starts from                      *)
(* ---------------------------------------------------------------------- *)

Snapshots ==
  { MkSnapshot(k) :
      k \in { <<"clean">>, <<"risky">>, <<"worst", "worst">>, <<"huge", "clean", "risky">>,
              <<"mid", "clean">>, [i \in 1..MaxFiles |-> "clean"],
              [i \in 1..MaxFiles |-> IF i % 2 = 0 THEN "risky" ELSE "mid"] } }

Environments ==
  [AI_PROVIDER : {Undef, Str(S("hybrid")), Str(<<" ", "Ensemble">>), Str(S("auto")),
                  Str(S("gemini")), Str(S("groq")), Str(S("claude"))},
   GEMINI_API_KEY : {Undef, Str(S("g-key"))},
   GROQ_API_KEY : {Str(<<>>), Str(S("q-key"))},
   SCORE_BASE_WEIGHT : {Undef, Str(S("0.8")), Str(S("0.3"))}]

(* ---------------------------------------------------------------------- *)
(* aiEnhancer.js: the orchestrator                                         *)
(* ---------------------------------------------------------------------- *)

Idle == [status |-> "idle", value |-> Undef, reason |-> NoError]
Pending == [status |-> "pending", value |-> Undef, reason |-> NoError]
Fulfilled(v) == [status |-> "fulfilled", value |-> v, reason |-> NoError]
Rejected(e) == [status |-> "rejected", value |-> Undef, reason |-> e]

Resolved(report) == [kind |-> "resolved", report |-> report]

InFlight == {p \in Providers : settled[p].status = "pending"}

\* a provider that has not answered
NoResponse == [kind |-> "none", status |-> "", text |-> <<>>]

Init ==
  /\ \E snapshot \in Snapshots : baseline = buildLocalReport(snapshot)
  /\ env \in Environments
  /\ pc = "start"
  /\ plan = [mode |-> "none", providers |-> <<>>, requested |-> <<>>]
  /\ index = 0
  /\ settled = [p \in Providers |-> Idle]
  /\ lastError = NoError
  /\ calls = <<>>
  /\ responses = [p \in Providers |-> NoResponse]
  /\ completions = <<>>
  /\ result = [kind |-> "none"]

\* enrichReportWithAI up to its first suspension (buildPrompt is a pure
\* function of a well-formed snapshot and the baseline and has no effect)
Enrich ==
  /\ pc = "start"
  /\ \E execution \in {resolveExecutionPlan} :
        /\ plan' = execution
        /\ IF Len(execution.providers) = 0 THEN
             /\ result' = Resolved(withMeta(baseline, S("local-heuristics"), S("rule-engine-v2"),
                  TRUE, S("No AI provider key configured. Set GEMINI_API_KEY or GROQ_API_KEY.")))
             /\ pc' = "done"
             /\ UNCHANGED <<index, settled, calls>>
           ELSE IF execution.mode = "hybrid" /\ Len(execution.providers) > 1 THEN
             \* runHybridFlow: providers.map starts every call
             /\ pc' = "hybrid"
             /\ settled' = [p \in Providers |->
                             IF p \in Range(execution.providers) THEN Pending ELSE settled[p]]
             /\ calls' = execution.providers
             /\ UNCHANGED <<index, result>>
           ELSE
             \* runSequentialFlow: the loop calls the first provider
             /\ pc' = "sequential"
             /\ index' = 1
             /\ settled' = [settled EXCEPT ![execution.providers[1]] = Pending]
             /\ calls' = <<execution.providers[1]>>
             /\ UNCHANGED result
  /\ UNCHANGED <<env, baseline, lastError, responses, completions>>

\* one iteration of the loop body of runSequentialFlow on the provider's outcome:
\* [ok |-> TRUE, value, report], value being what the attempt obtained
\* (provider, model and parsed candidate), or [ok |-> FALSE, error]
SequentialAttempt(provider, outcome) ==
  LET completion == requestCompletion(provider, outcome)
      parsed == parseJsonResponse(completion.text)
      merged == mergeReports(baseline, parsed.value)
      degradedHybridReason ==
        IF (\E m \in HYBRID_MODES : plan.requested = S(m)) /\ Len(plan.providers) = 1
        THEN S("Hybrid mode requested, but only one provider key is configured.")
        ELSE NullStr
  IN IF ~completion.ok THEN [ok |-> FALSE, error |-> completion.error]
     ELSE IF ~parsed.ok THEN [ok |-> FALSE, error |-> parsed.error]
     ELSE IF merged.threw
       THEN [ok |-> FALSE, error |-> Error(S("Cannot read properties of null"))]
     ELSE [ok |-> TRUE,
           value |-> [provider |-> provider, model |-> completion.model, parsed |-> parsed.value],
           report |-> withMeta(merged.report, S(provider), completion.model,
                               degradedHybridReason # NullStr, degradedHybridReason)]

\* a catch block that keeps the first error: lastError = lastError || error
catchErrorKeepFirst(previous, error) == IF previous = NoError THEN error ELSE previous

\* catch (error) { lastError = error; }
catchError(previous, error) == error

\* the return after the loop of runSequentialFlow
sequentialFallback(error) ==
  withMeta(baseline, S("local-heuristics"), S("rule-engine-v2"), TRUE,
           OrElse(error.message, S("AI generation failed on all configured providers.")))

\* runSequentialFlow resumes when the awaited provider call settles
SequentialSettle ==
  /\ pc = "sequential"
  /\ index <= Len(plan.providers)
  /\ LET provider == plan.providers[index]
     IN /\ settled[provider].status = "pending"
        /\ \E outcome \in Outcomes(provider) :
           \E attempt \in {SequentialAttempt(provider, outcome)} :
              /\ responses' = [responses EXCEPT ![provider] = outcome]
              /\ IF attempt.ok THEN
                  /\ result' = Resolved(attempt.report)
                  /\ settled' = [settled EXCEPT ![provider] = Fulfilled(attempt.value)]
                  /\ pc' = "done"
                  /\ UNCHANGED <<index, lastError, calls>>
                ELSE
                  /\ lastError' = catchError(lastError, attempt.error)
                  /\ index' = index + 1
                  /\ IF index < Len(plan.providers) THEN
                       /\ settled' = [settled EXCEPT ![provider] = Rejected(attempt.error),
                                                     ![plan.providers[index + 1]] = Pending]
                       /\ calls' = Append(calls, plan.providers[index + 1])
                       /\ UNCHANGED <<pc, result>>
                     ELSE
                       /\ settled' = [settled EXCEPT ![provider] = Rejected(attempt.error)]
                       /\ result' = Resolved(sequentialFallback(lastError'))
                       /\ pc' = "done"
                       /\ UNCHANGED calls
  /\ UNCHANGED <<env, baseline, plan, completions>>

\* one mapped call of runHybridFlow on the provider's outcome: the settled promise
HybridAttempt(provider, outcome) ==
  LET completion == requestCompletion(provider, outcome)
      parsed == parseJsonResponse(completion.text)
  IN IF ~completion.ok THEN Rejected(completion.error)
     ELSE IF ~parsed.ok THEN Rejected(parsed.error)
     ELSE Fulfilled([provider |-> provider, model |-> completion.model, parsed |-> parsed.value])

\* one of the concurrent provider calls of runHybridFlow settles
HybridSettle(provider) ==
  /\ pc = "hybrid"
  /\ settled[provider].status = "pending"
  /\ \E outcome \in Outcomes(provider) :
       /\ settled' = [settled EXCEPT ![provider] = HybridAttempt(provider, outcome)]
       /\ responses' = [responses EXCEPT ![provider] = outcome]
  /\ completions' = Append(completions, provider)
  /\ UNCHANGED <<env, baseline, pc, plan, index, lastError, calls, result>>

\* successes that stop at the first fulfilled item
hybridSuccessesFirstOnly(settledArray) ==
  Slice(Map(Filter(settledArray, LAMBDA item : item.status = "fulfilled"),
            LAMBDA item : item.value), 1)

\* const successes = settled.filter(fulfilled).map((item) => item.value)
hybridSuccesses(settledArray) ==
  Map(Filter(settledArray, LAMBDA item : item.status = "fulfilled"), LAMBDA item : item.value)

\* failures that are never collected
hybridFailuresDropped(settledArray) == <<>>

\* const failures = settled.filter(rejected).map((item) => item.reason)
hybridFailures(settledArray) ==
  Map(Filter(settledArray, LAMBDA item : item.status = "rejected"), LAMBDA item : item.reason)

\* the rest of runHybridFlow, on the array Promise.allSettled resolved with:
\* [threw |-> FALSE, report] or [threw |-> TRUE]
hybridOutcome(settledArray) ==
  LET successes == hybridSuccesses(settledArray)
      failures == hybridFailures(settledArray)
      mergedSingle == mergeReports(baseline, successes[1].parsed)
      consensusMerged == mergeHybridReports(baseline, successes)
  IN IF Len(successes) = 0 THEN
       [threw |-> FALSE,
        report |-> withMeta(baseline, S("local-heuristics"), S("rule-engine-v2"), TRUE,
                     buildFailureReason(failures, S("Hybrid AI failed on all providers.")))]
     ELSE IF Len(successes) = 1 THEN
       IF mergedSingle.threw THEN [threw |-> TRUE]
       ELSE [threw |-> FALSE,
             report |-> withMeta(mergedSingle.report,
                          <<"hybrid-partial:", successes[1].provider>>, successes[1].model, TRUE,
                          buildFailureReason(failures,
                            S("One provider failed during hybrid analysis.")))]
     ELSE
       IF consensusMerged.threw THEN [threw |-> TRUE]
       ELSE [threw |-> FALSE,
             report |-> withMeta(consensusMerged.report,
                          S("hybrid:") \o Join(Map(successes, LAMBDA item : S(item.provider)),
                                               S("+")),
                          Join(Map(successes, LAMBDA item : item.model), <<" ", "+", " ">>),
                          Len(failures) > 0,
                          IF Len(failures) > 0
                          THEN buildFailureReason(failures,
                                 S("Hybrid completed with partial provider failures."))
                          ELSE NullStr)]

\* a combinator that never resolves
neverSettled(promises) == FALSE

\* a combinator that resolves as soon as one of the promises has settled
firstSettled(promises) ==
  \E i \in 1..Len(promises) : promises[i].status \in {"fulfilled", "rejected"}

\* Promise.allSettled(promises) resolves when every promise has settled
allSettled(promises) ==
  \A i \in 1..Len(promises) : promises[i].status \in {"fulfilled", "rejected"}

\* an array of the results in the order the calls settled
settledInCompletionOrder(providers) == [i \in 1..Len(completions) |-> settled[completions[i]]]

\* the array Promise.allSettled resolves with: the result of each promise, in
\* the order of the promises passed in (providers.map)
settledInCallOrder(providers) == [i \in 1..Len(providers) |-> settled[providers[i]]]

\* runHybridFlow resumes once Promise.allSettled has resolved
HybridResume ==
  /\ pc = "hybrid"
  /\ allSettled([i \in 1..Len(plan.providers) |-> settled[plan.providers[i]]])
  /\ \E outcome \in {hybridOutcome(settledInCallOrder(plan.providers))} :
       result' = IF outcome.threw THEN [kind |-> "rejected"] ELSE Resolved(outcome.report)
  /\ pc' = "done"
  /\ UNCHANGED <<env, baseline, plan, index, settled, lastError, calls, responses, completions>>

Next ==
  \/ Enrich
  \/ SequentialSettle
  \/ \E provider \in Providers : HybridSettle(provider)
  \/ HybridResume

Spec == Init /\ [][Next]_vars

\* the step of HybridResume told by its guard and its change of pc alone: the
\* steps of Next that satisfy it are exactly the steps of HybridResume, and it is
\* enabled exactly when HybridResume is
HybridResumes ==
  /\ pc = "hybrid"
  /\ allSettled([i \in 1..Len(plan.providers) |-> settled[plan.providers[i]]])
  /\ pc' = "done"

\* Whether a request returns does not depend on what the snapshot holds: the
\* requests followed to their end start from a clean and from a risky file
FairSnapshots == {MkSnapshot(<<"clean">>), MkSnapshot(<<"risky">>)}

FairInit == Init /\ \E snapshot \in FairSnapshots : baseline = buildLocalReport(snapshot)

\* The same request when every provider call that was started settles and the
\* event loop runs every continuation that is ready: the synchronous start of
\* enrichReportWithAI, the continuation of the awaited call of runSequentialFlow,
\* each mapped call of runHybridFlow, and the continuation of Promise.allSettled.
FairSpec ==
  /\ FairInit
  /\ [][Next]_vars
  /\ WF_vars(Enrich)
  /\ WF_vars(SequentialSettle)
  /\ \A provider \in Providers : WF_vars(HybridSettle(provider))
  /\ WF_pc(HybridResumes)

(* ---------------------------------------------------------------------- *)
(* Properties of a request                                                 *)
(* ---------------------------------------------------------------------- *)

\* the promise of enrichReportWithAI has resolved with a Report
Returned == result.kind = "resolved"

\* the Reports of a request: the baseline Report of the local analyzer and the
\* Report enrichReportWithAI returned
Reports == {baseline} \cup (IF Returned THEN {result.report} ELSE {})

CategoryNames == {"maintainability", "reliability", "security", "documentation", "architecture"}

\* the providers whose attempt succeeded / failed
SucceededCalls == {p \in Providers : settled[p].status = "fulfilled"}

FailedCalls == {p \in Providers : settled[p].status = "rejected"}

\* the candidate a succeeded attempt obtained
CandidateOf(p) == settled[p].value.parsed

\* two Reports with the same scores, risk and lists
SameContent(r, b) ==
  /\ r.overallScore = b.overallScore
  /\ r.grade = b.grade
  /\ r.categories = b.categories
  /\ r.risk = b.risk
  /\ r.heatmap = b.heatmap
  /\ r.topIssues = b.topIssues
  /\ r.priorityFixes = b.priorityFixes
  /\ r.quickWins = b.quickWins
  /\ r.strengths = b.strengths
  /\ r.nextMilestones = b.nextMilestones

\* C1: for every mode, every set of credentials and every provider outcome the
\* promise of enrichReportWithAI is never rejected, in the hybrid flow too, and
\* a request that is over has resolved with a Report
C1_NeverPropagates ==
  /\ result.kind # "rejected"
  /\ pc = "done" => Returned /\ DOMAIN result.report = DOMAIN baseline

\* a hybrid request resolved after merging a candidate that is no object (null)
C1_HybridMergedNonObject ==
  /\ pc = "done"
  /\ plan.mode = "hybrid"
  /\ SucceededCalls = Providers
  /\ CandidateOf("gemini") = Null
  /\ CandidateOf("groq").t = "obj"
  /\ Returned

\* C2: in every Report of every path the overall score lies in 10..99 and each
\* of the five category scores in 0..100, whatever finite numbers candidates give
C2_ScoreBounds ==
  \A r \in Reports :
    /\ r.overallScore \in 10..99
    /\ DOMAIN r.categories = CategoryNames
    /\ \A key \in CategoryNames : r.categories[key] \in 0..100

\* a candidate gave a category score far above 100 and the returned score is 100
C2_OutOfRangeCandidateClamped ==
  /\ Returned
  /\ \E p \in SucceededCalls :
       LET given == Lookup(Lookup(CandidateOf(p), "categories"), "security")
       IN given.t = "num" /\ given.v > 1000
  /\ result.report.categories["security"] = 100

\* C3: in every Report of every path the risk score lies in 5..100
C3_RiskBounds == \A r \in Reports : r.risk.score \in 5..100

\* C4: in every Report of every path every list respects its cap
C4_ListCaps ==
  \A r \in Reports :
    /\ Len(r.heatmap) <= 20
    /\ Len(r.topIssues) <= 12
    /\ Len(r.priorityFixes) <= 6
    /\ Len(r.quickWins) <= 6
    /\ Len(r.strengths) <= 5
    /\ Len(r.nextMilestones) <= 5
    /\ Len(r.risk.dominantRisks) <= 4

\* a candidate gave more than twelve entries in its lists, the snapshot had more
\* than twenty files, and every list of the returned Report is at its cap
C4_EveryListAtItsCap ==
  /\ Returned
  /\ \E p \in SucceededCalls :
       LET given == Lookup(CandidateOf(p), "topIssues")
       IN given.t = "arr" /\ Len(given.v) > 12
  /\ baseline.analysisMeta.filesAnalyzed > 20
  /\ Len(result.report.heatmap) = 20
  /\ Len(result.report.topIssues) = 12
  /\ Len(result.report.priorityFixes) = 6
  /\ Len(result.report.quickWins) = 6
  /\ Len(result.report.strengths) = 5
  /\ Len(result.report.nextMilestones) = 5
  /\ Len(result.report.risk.dominantRisks) = 4

\* round(0.30 m + 0.25 r + 0.25 s + 0.10 d + 0.10 a) clamped to 10..99
WeightedOverall(categories) ==
  LET hundredths == 30 * categories["maintainability"] + 25 * categories["reliability"]
                    + 25 * categories["security"] + 10 * categories["documentation"]
                    + 10 * categories["architecture"]
      rounded == (hundredths + 50) \div 100
  IN IF rounded < 10 THEN 10 ELSE IF rounded > 99 THEN 99 ELSE rounded

\* C5: in every Report of every path the overall score is the clamped weighted
\* sum of that Report's own category scores; a candidate's overallScore has no say
C5_OverallFormula == \A r \in Reports : r.overallScore = WeightedOverall(r.categories)

\* a candidate gave an overallScore and category scores, the categories moved
\* and the returned overall score is not the candidate's
C5_CandidateOverallIgnored ==
  /\ Returned
  /\ result.report.categories # baseline.categories
  /\ result.report.overallScore # baseline.overallScore
  /\ \E p \in SucceededCalls :
       LET given == Lookup(CandidateOf(p), "overallScore")
       IN given.t = "num" /\ given.v # 10 * result.report.overallScore

\* the grade of a score by the fixed breakpoints
GradeAt(score) ==
  CASE score >= 90 -> <<"A+">>
    [] score >= 82 /\ score < 90 -> <<"A">>
    [] score >= 74 /\ score < 82 -> <<"B">>
    [] score >= 65 /\ score < 74 -> <<"C">>
    [] score >= 55 /\ score < 65 -> <<"D">>
    [] score < 55 -> <<"F">>

\* C6: in every Report the grade is the grade of its overall score by the fixed
\* breakpoints: no path takes a candidate's grade or keeps a stale baseline grade
C6_GradeOfOverall == \A r \in Reports : r.grade = GradeAt(r.overallScore)

\* a merge moved the overall score across a breakpoint while the candidate
\* carried a grade of its own
C6_GradeRederived ==
  /\ Returned
  /\ result.report.grade # baseline.grade
  /\ \E p \in SucceededCalls :
       LET given == Lookup(CandidateOf(p), "grade")
       IN given.t = "str" /\ given.v # result.report.grade

\* neither provider credential is configured (unset or empty)
NoCredentials ==
  /\ env.GEMINI_API_KEY \in {Undef, Str(<<>>)}
  /\ env.GROQ_API_KEY \in {Undef, Str(<<>>)}

\* C7: with no credential configured, whatever the mode selector, no provider is
\* called and the request returns the baseline's scores, risk and lists tagged
\* local-heuristics with fallbackUsed true
C7_NoCredentialsNoCalls ==
  NoCredentials =>
    /\ calls = <<>>
    /\ \A p \in Providers : settled[p].status = "idle"
    /\ pc \in {"start", "done"}
    /\ pc = "done" =>
         /\ Returned
         /\ result.report.analysisMeta.provider = <<"local-heuristics">>
         /\ result.report.analysisMeta.fallbackUsed = TRUE
         /\ SameContent(result.report, baseline)

\* a request in hybrid mode without credentials is over
C7_HybridWithoutCredentials ==
  /\ NoCredentials
  /\ env.AI_PROVIDER = Str(<<"hybrid">>)
  /\ pc = "done"

\* C8: in every Report, the baseline of the local analyzer included,
\* fallbackUsed = false implies that a provider call succeeded
C8_FallbackFlagMeansSuccess ==
  \A r \in Reports : r.analysisMeta.fallbackUsed = FALSE => SucceededCalls # {}

\* the position of a provider in the fixed order gemini, groq
OrderOf(p) == IF p = "gemini" THEN 1 ELSE 2

\* C9: in sequential mode providers are called in the order gemini, groq, each at
\* most once, one at a time, each only after all earlier ones failed; after the
\* first success nothing more is called and the Report merged from it is returned
C9_SequentialOrder ==
  (plan.mode = "sequential") =>
    /\ \A i, j \in 1..Len(calls) : i < j => OrderOf(calls[i]) < OrderOf(calls[j])
    /\ \A i \in 1..Len(calls) : calls[i] = plan.providers[i]
    /\ \A i \in 1..Len(calls) : \A j \in 1..(i - 1) : settled[calls[j]].status = "rejected"
    /\ \A p \in Providers : settled[p].status # "idle" <=> p \in Range(calls)
    /\ Cardinality(InFlight) <= 1
    /\ \A p \in SucceededCalls :
         /\ p = calls[Len(calls)]
         /\ InFlight = {}
         /\ pc = "done"
         /\ Returned
         /\ result.report.analysisMeta.provider = <<p>>
         /\ SameContent(result.report, mergeReports(baseline, CandidateOf(p)).report)

\* gemini failed, groq was then called and succeeded
C9_SecondProviderSucceeded ==
  /\ plan.mode = "sequential"
  /\ calls = <<"gemini", "groq">>
  /\ settled["gemini"].status = "rejected"
  /\ settled["groq"].status = "fulfilled"
  /\ pc = "done"

\* C10: in sequential mode, when every attempted provider failed, the request
\* returns the baseline tagged local-heuristics with fallbackUsed true and the
\* message of the last provider attempted as fallbackReason
C10_AllFailedLastMessage ==
  (/\ pc = "done"
   /\ plan.mode = "sequential"
   /\ plan.providers # <<>>
   /\ \A i \in 1..Len(plan.providers) : settled[plan.providers[i]].status = "rejected") =>
    /\ Returned
    /\ SameContent(result.report, baseline)
    /\ result.report.analysisMeta.provider = <<"local-heuristics">>
    /\ result.report.analysisMeta.fallbackUsed = TRUE
    /\ result.report.analysisMeta.fallbackReason =
         settled[plan.providers[Len(plan.providers)]].reason.message

\* two providers failed with different messages and the request is over
C10_BothFailedDifferently ==
  /\ pc = "done"
  /\ plan.mode = "sequential"
  /\ FailedCalls = Providers
  /\ settled["gemini"].reason.message # settled["groq"].reason.message

\* C11: in hybrid mode both providers are called exactly once, both calls are
\* started before either has settled, and nothing is merged or returned while a
\* call is still in flight, whichever call settles first and however it settles
C11_HybridWaitsForAll ==
  (plan.mode = "hybrid") =>
    /\ calls = <<"gemini", "groq">>
    /\ \A p \in Providers : settled[p].status # "idle"
    /\ \A p \in Providers : settled[p].status = "pending" <=> responses[p] = NoResponse
    /\ result.kind # "none" => InFlight = {}
    /\ pc = "hybrid" <=> result.kind = "none"
    /\ pc \in {"hybrid", "done"}

\* the second provider has succeeded, the first is still in flight and the
\* request has not returned
C11_SecondSettledFirst ==
  /\ plan.mode = "hybrid"
  /\ settled["groq"].status = "fulfilled"
  /\ settled["gemini"].status = "pending"
  /\ result.kind = "none"

\* text contains part as a run of consecutive tokens
Contains(text, part) ==
  \E i \in 0..(Len(text) - Len(part)) : SubSeq(text, i + 1, i + Len(part)) = part

\* C12: a hybrid request in which no provider succeeded returns the baseline
\* tagged local-heuristics with fallbackUsed true and a fallbackReason that
\* contains the failure message of every provider called
C12_HybridAllFailed ==
  (/\ pc = "done"
   /\ plan.mode = "hybrid"
   /\ SucceededCalls = {}) =>
    /\ Returned
    /\ SameContent(result.report, baseline)
    /\ result.report.summary = baseline.summary
    /\ result.report.analysisMeta.provider = <<"local-heuristics">>
    /\ result.report.analysisMeta.fallbackUsed = TRUE
    /\ \A i \in 1..Len(calls) :
         /\ settled[calls[i]].status = "rejected"
         /\ settled[calls[i]].reason.message # NullStr
         /\ Contains(result.report.analysisMeta.fallbackReason, settled[calls[i]].reason.message)

\* a hybrid request is over and its two providers failed with different messages
C12_HybridBothFailedDifferently ==
  /\ pc = "done"
  /\ plan.mode = "hybrid"
  /\ FailedCalls = Providers
  /\ settled["gemini"].reason.message # settled["groq"].reason.message
  /\ Returned

\* C13: a hybrid request in which exactly one provider succeeded and the other
\* failed returns the single-candidate merge of the baseline with the successful
\* provider's payload, tagged hybrid-partial:<that provider>, with fallbackUsed
\* true and a fallbackReason that is not null, whichever provider failed
C13_HybridPartial ==
  (/\ pc = "done"
   /\ plan.mode = "hybrid"
   /\ Cardinality(SucceededCalls) = 1
   /\ Cardinality(FailedCalls) = 1) =>
    \A p \in SucceededCalls :
      LET single == mergeReports(baseline, CandidateOf(p))
      IN /\ Returned
         /\ ~single.threw
         /\ SameContent(result.report, single.report)
         /\ result.report.summary = single.report.summary
         /\ result.report.analysisMeta.provider = <<"hybrid-partial:", p>>
         /\ result.report.analysisMeta.model = DEFAULT_MODELS(p)
         /\ result.report.analysisMeta.fallbackUsed = TRUE
         /\ result.report.analysisMeta.fallbackReason # NullStr

\* the first provider answered with a text that is no JSON, the second with an
\* object that moved the category scores, and the hybrid request is over
C13_MalformedFirstProvider ==
  /\ pc = "done"
  /\ plan.mode = "hybrid"
  /\ responses["gemini"] = [kind |-> "text", status |-> "", text |-> <<"sorry">>]
  /\ settled["gemini"].status = "rejected"
  /\ settled["groq"].status = "fulfilled"
  /\ CandidateOf("groq").t = "obj"
  /\ Returned
  /\ result.report.categories # baseline.categories

\* the values of the calls that succeeded, in call order
SuccessValues ==
  Map(Filter(calls, LAMBDA p : settled[p].status = "fulfilled"), LAMBDA p : settled[p].value)

\* C14: a hybrid request in which at least two providers succeeded returns the
\* consensus merge over the successful candidates; fallbackUsed is false exactly
\* when no called provider failed, and fallbackReason is null exactly when
\* fallbackUsed is false
C14_HybridConsensus ==
  (/\ pc = "done"
   /\ plan.mode = "hybrid"
   /\ Cardinality(SucceededCalls) >= 2) =>
    LET consensus == mergeHybridReports(baseline, SuccessValues)
    IN /\ Returned
       /\ ~consensus.threw
       /\ SameContent(result.report, consensus.report)
       /\ result.report.summary = consensus.report.summary
       /\ result.report.analysisMeta.provider =
            <<"hybrid:">> \o Join(Map(SuccessValues, LAMBDA item : <<item.provider>>), <<"+">>)
       /\ result.report.analysisMeta.fallbackUsed = FALSE <=> FailedCalls = {}
       /\ result.report.analysisMeta.fallbackUsed = TRUE <=> FailedCalls # {}
       /\ result.report.analysisMeta.fallbackReason = NullStr
            <=> result.report.analysisMeta.fallbackUsed = FALSE

\* both providers answered with objects that differ, the consensus moved the
\* category scores and the hybrid request is over
C14_BothSucceeded ==
  /\ pc = "done"
  /\ plan.mode = "hybrid"
  /\ SucceededCalls = Providers
  /\ CandidateOf("gemini").t = "obj"
  /\ CandidateOf("groq").t = "obj"
  /\ CandidateOf("gemini") # CandidateOf("groq")
  /\ Returned
  /\ result.report.categories # baseline.categories
  /\ result.report.analysisMeta.fallbackUsed = FALSE

\* the mode selector asked for a hybrid mode
HybridRequested == pc # "start" /\ \E mode \in HYBRID_MODES : plan.requested = S(mode)

\* fewer than two providers have a credential
FewerThanTwoCredentials == ~(Truthy(env.GEMINI_API_KEY) /\ Truthy(env.GROQ_API_KEY))

\* C15: when a hybrid mode is requested and fewer than two providers have a
\* credential, the request runs the sequential plan over the available providers
\* and the fallbackReason of the returned Report reports the degradation, whether
\* the provider call succeeded, failed, or no provider was available (for an
\* empty plan the reason that no key is configured is taken as such a report)
C15_DegradationReported ==
  (/\ pc = "done"
   /\ HybridRequested
   /\ FewerThanTwoCredentials) =>
    /\ plan.mode = "sequential"
    /\ plan.providers = availableProviders(Truthy(env.GEMINI_API_KEY), Truthy(env.GROQ_API_KEY))
    /\ Returned
    /\ LET reason == result.report.analysisMeta.fallbackReason
       IN /\ reason # NullStr
          /\ \/ Contains(reason,
                   S("Hybrid mode requested, but only one provider key is configured."))
             \/ /\ plan.providers = <<>>
                /\ reason =
                     S("No AI provider key configured. Set GEMINI_API_KEY or GROQ_API_KEY.")

\* the credential of a provider
KeyOf(p) == IF p = "gemini" THEN env.GEMINI_API_KEY ELSE env.GROQ_API_KEY

\* C16: when the mode selector names one provider, the plan is sequential and
\* holds that provider alone if it has a credential and nothing otherwise; no
\* other provider is ever called, and without a credential for the named
\* provider the baseline is returned as local-heuristics even when the other
\* provider has a credential
C16_OnlyNamedProvider ==
  \A p \in Providers :
    (pc # "start" /\ plan.requested = S(p)) =>
      /\ plan.mode = "sequential"
      /\ plan.providers = (IF Truthy(KeyOf(p)) THEN <<p>> ELSE <<>>)
      /\ calls = plan.providers
      /\ \A q \in Providers \ {p} : settled[q].status = "idle" /\ responses[q] = NoResponse
      /\ ~Truthy(KeyOf(p)) =>
           /\ settled[p].status = "idle"
           /\ pc = "done"
           /\ Returned
           /\ SameContent(result.report, baseline)
           /\ result.report.analysisMeta.provider = <<"local-heuristics">>
           /\ result.report.analysisMeta.fallbackUsed = TRUE

\* the selector names gemini, only groq has a credential, and the request is over
C16_NamedWithoutCredential ==
  /\ pc = "done"
  /\ plan.requested = S("gemini")
  /\ ~Truthy(env.GEMINI_API_KEY)
  /\ Truthy(env.GROQ_API_KEY)
  /\ Returned

\* C17: when a request is over and at least one of its provider calls failed,
\* the fallbackReason of the returned Report is not null and contains the message
\* of every failed call, also when a later provider of a sequential plan succeeded
C17_FailuresSummarized ==
  (pc = "done" /\ FailedCalls # {}) =>
    /\ Returned
    /\ result.report.analysisMeta.fallbackReason # NullStr
    /\ \A p \in FailedCalls :
         Contains(result.report.analysisMeta.fallbackReason, settled[p].reason.message)

\* no balanced {...} span starts at the first "{" of the trimmed text
NoObjectExtractable(text) == extractFirstJsonObject(Trim(text)) = NullStr

\* the position of a provider in the plan (0 when it is not planned)
PlanIndex(p) ==
  IF p \in Range(plan.providers)
  THEN CHOOSE i \in 1..Len(plan.providers) : plan.providers[i] = p
  ELSE 0

\* C18: a provider call whose response text holds no extractable JSON object
\* has failed, also when the text is valid JSON that is no object: in sequential
\* mode the next provider of the plan has been called, in hybrid mode the call
\* counts among the failures
C18_NoObjectIsFailure ==
  \A p \in Providers :
    (responses[p].kind = "text" /\ NoObjectExtractable(responses[p].text)) =>
      /\ settled[p].status = "rejected"
      /\ (plan.mode = "sequential" /\ PlanIndex(p) < Len(plan.providers)) =>
           Len(calls) > PlanIndex(p)

\* the distance between two scores
Distance(a, b) == IF a >= b THEN a - b ELSE b - a

\* C19: with local weight w the merged score of every category is within
\* (1 - w) * 100 of the baseline's score, for every finite candidate value, also
\* one outside 0..100, after a single-candidate merge and after a consensus merge
\* (SCORE_AI_WEIGHT is (1 - w) * 100, a whole number for the weights configured)
C19_AnchoringBound ==
  \A r \in Reports :
    \A key \in CategoryNames :
      Distance(r.categories[key], baseline.categories[key]) <= SCORE_AI_WEIGHT

Severities == {<<"Critical">>, <<"High">>, <<"Medium">>, <<"Low">>}

Impacts == {<<"High">>, <<"Medium">>}

Efforts == {<<"Low">>, <<"Medium">>, <<"High">>}

RiskLevels == {<<"Low">>, <<"Moderate">>, <<"Elevated">>, <<"Critical">>}

\* the trimmed text of a candidate value when it is in the closed set, and
\* Medium otherwise
InSetOrMedium(given, closed) ==
  IF given.t = "str" /\ Trim(given.v) \in closed THEN Trim(given.v) ELSE <<"Medium">>

\* C20: in every Report of every path each topIssues entry has a severity of
\* the closed set, each priorityFixes entry an impact and an effort of theirs,
\* and risk.level is one of the four levels; where a single candidate's lists of
\* objects were taken over, each entry carries the candidate's value when it is
\* in the closed set and Medium otherwise
C20_ClosedEnumerations ==
  /\ \A r \in Reports :
       /\ \A i \in 1..Len(r.topIssues) : r.topIssues[i].severity \in Severities
       /\ \A i \in 1..Len(r.priorityFixes) :
            /\ r.priorityFixes[i].impact \in Impacts
            /\ r.priorityFixes[i].effort \in Efforts
       /\ r.risk.level \in RiskLevels
  /\ (Returned /\ plan.mode = "sequential") =>
       \A p \in SucceededCalls :
         LET issues == Lookup(CandidateOf(p), "topIssues")
             fixes == Lookup(CandidateOf(p), "priorityFixes")
         IN /\ (/\ issues.t = "arr"
                /\ issues.v # <<>>
                /\ \A i \in 1..Len(issues.v) : issues.v[i].t = "obj") =>
                 \A i \in 1..Len(result.report.topIssues) :
                   result.report.topIssues[i].severity =
                     InSetOrMedium(Lookup(issues.v[i], "severity"), Severities)
            /\ (/\ fixes.t = "arr"
                /\ fixes.v # <<>>
                /\ \A i \in 1..Len(fixes.v) : fixes.v[i].t = "obj") =>
                 \A i \in 1..Len(result.report.priorityFixes) :
                   /\ result.report.priorityFixes[i].impact =
                        InSetOrMedium(Lookup(fixes.v[i], "impact"), {<<"High">>})
                   /\ result.report.priorityFixes[i].effort =
                        InSetOrMedium(Lookup(fixes.v[i], "effort"), Efforts)

\* a candidate gave a severity, an impact and an effort outside their closed
\* sets and the returned Report holds Medium in their places
C20_OutOfSetReplaced ==
  /\ Returned
  /\ plan.mode = "sequential"
  /\ \E p \in SucceededCalls :
       LET issues == Lookup(CandidateOf(p), "topIssues")
           fixes == Lookup(CandidateOf(p), "priorityFixes")
       IN /\ issues.t = "arr" /\ Len(issues.v) >= 4
          /\ Lookup(issues.v[4], "severity") = Str(<<"Blocker">>)
          /\ result.report.topIssues[4].severity = <<"Medium">>
          /\ fixes.t = "arr" /\ Len(fixes.v) >= 3
          /\ Lookup(fixes.v[3], "impact") = Str(<<"Low">>)
          /\ Lookup(fixes.v[3], "effort") = Str(<<"Huge">>)
          /\ result.report.priorityFixes[3].impact = <<"Medium">>
          /\ result.report.priorityFixes[3].effort = <<"Medium">>

\* the candidate is one of the Reports that are sanitized already
SanitizedCandidate(value) ==
  \E i \in 1..Len(SanitizedReports) : value = ReportValue(SanitizedReports[i])

\* the Report a sanitized candidate is the value of
SourceOf(value) ==
  SanitizedReports[CHOOSE i \in 1..Len(SanitizedReports) :
                     value = ReportValue(SanitizedReports[i])]

ListNames == {"topIssues", "priorityFixes", "quickWins", "strengths", "nextMilestones"}

\* C21 as stated: after a single-candidate merge with a candidate that is a
\* sanitized Report, the summary, the risk level and every list of the returned
\* Report are the candidate's exactly
C21_SanitizedCandidateKept ==
  (Returned /\ Cardinality(SucceededCalls) = 1) =>
    \A p \in SucceededCalls :
      SanitizedCandidate(CandidateOf(p)) =>
        LET c == SourceOf(CandidateOf(p))
        IN /\ result.report.summary = c.summary
           /\ result.report.risk.level = c.risk.level
           /\ result.report.risk.dominantRisks = c.risk.dominantRisks
           /\ \A name \in ListNames : result.report[name] = c[name]

\* C21 amended: after a single-candidate merge with a candidate that is a
\* sanitized Report, the summary and the risk level of the returned Report are
\* the candidate's, and every list is the candidate's when the candidate's list
\* is not empty and the baseline's when it is empty
C21_SanitizedCandidateKeptUnlessEmpty ==
  (Returned /\ Cardinality(SucceededCalls) = 1) =>
    \A p \in SucceededCalls :
      SanitizedCandidate(CandidateOf(p)) =>
        LET c == SourceOf(CandidateOf(p))
        IN /\ result.report.summary = c.summary
           /\ result.report.risk.level = c.risk.level
           /\ result.report.risk.dominantRisks =
                (IF c.risk.dominantRisks # <<>> THEN c.risk.dominantRisks
                 ELSE baseline.risk.dominantRisks)
           /\ \A name \in ListNames :
                result.report[name] = (IF c[name] # <<>> THEN c[name] ELSE baseline[name])

\* a sanitized Report with findings was merged into a baseline with other
\* findings and the returned lists are the candidate's
C21_SanitizedListsTakenOver ==
  /\ Returned
  /\ Cardinality(SucceededCalls) = 1
  /\ \E p \in SucceededCalls :
       /\ CandidateOf(p) = ReportValue(SanitizedReports[1])
       /\ SanitizedReports[1].topIssues # <<>>
       /\ baseline.topIssues # <<>>
       /\ baseline.topIssues # SanitizedReports[1].topIssues
       /\ result.report.topIssues = SanitizedReports[1].topIssues
       /\ result.report.priorityFixes = SanitizedReports[1].priorityFixes

\* C22: when every provider call that was started settles, the request
\* eventually returns a Report, in sequential and in hybrid mode; and a hybrid
\* request has not returned as long as one of its calls has not settled, also
\* after the other call has succeeded, so that it never returns if that call
\* never settles
C22_ReturnsOnceAllSettled ==
  /\ <>(pc = "done" /\ Returned)
  /\ []((plan.mode = "hybrid" /\ InFlight # {}) => (result.kind = "none" /\ pc = "hybrid"))

\* the first provider of a hybrid request has succeeded with an object, the
\* second has not settled, and the request has not returned
C22_WaitingForLastCall ==
  /\ plan.mode = "hybrid"
  /\ settled["gemini"].status = "fulfilled"
  /\ CandidateOf("gemini").t = "obj"
  /\ InFlight = {"groq"}
  /\ result.kind = "none"

\* what a candidate holds for a category: undefined unless the candidate and its
\* categories are objects
GivenCategory(candidate, key) == Lookup(Lookup(candidate, "categories"), key)

\* round(w * base + (1 - w) * given) clamped to 0..100, for base a whole number,
\* given in tenths and w = SCORE_BASE_WEIGHT in hundredths
Blended(base, given) ==
  LET rounded == (base * 10 * SCORE_BASE_WEIGHT + given * (100 - SCORE_BASE_WEIGHT) + 500)
                 \div 1000
  IN IF rounded < 0 THEN 0 ELSE IF rounded > 100 THEN 100 ELSE rounded

\* C23: after a single-candidate merge each category of the returned Report is
\* the blend of the baseline's score with the candidate's when the candidate
\* holds a finite number for it, and the baseline's score exactly otherwise,
\* each category by itself
C23_CategoryByCategory ==
  (Returned /\ Cardinality(SucceededCalls) = 1) =>
    \A p \in SucceededCalls :
      \A key \in CategoryNames :
        result.report.categories[key] =
          (IF GivenCategory(CandidateOf(p), key).t = "num"
           THEN Blended(baseline.categories[key], GivenCategory(CandidateOf(p), key).v)
           ELSE baseline.categories[key])

\* a candidate held a finite number for one category, a string, an infinite
\* number and null for three others and nothing for the fifth; the first moved
\* and the four others are the baseline's
C23_OnlyFiniteCategoryMoved ==
  /\ Returned
  /\ Cardinality(SucceededCalls) = 1
  /\ \E p \in SucceededCalls :
       /\ GivenCategory(CandidateOf(p), "maintainability").t = "num"
       /\ GivenCategory(CandidateOf(p), "reliability").t = "str"
       /\ GivenCategory(CandidateOf(p), "security").t = "inf"
       /\ GivenCategory(CandidateOf(p), "documentation").t = "null"
       /\ GivenCategory(CandidateOf(p), "architecture").t = "undef"
  /\ result.report.categories["maintainability"] # baseline.categories["maintainability"]
  /\ \A key \in CategoryNames \ {"maintainability"} :
       result.report.categories[key] = baseline.categories[key]

\* the level of a risk score by the fixed thresholds
LevelAt(score) ==
  CASE score <= 28 -> <<"Low">>
    [] score > 28 /\ score <= 52 -> <<"Moderate">>
    [] score > 52 /\ score <= 75 -> <<"Elevated">>
    [] score > 75 -> <<"Critical">>

\* the canonical levels the candidates of the succeeded calls supplied
CanonicalVotes ==
  { Trim(Lookup(Lookup(CandidateOf(p), "risk"), "level").v) :
      p \in {q \in SucceededCalls :
               LET given == Lookup(Lookup(CandidateOf(q), "risk"), "level")
               IN given.t = "str" /\ Trim(given.v) \in RiskLevels} }

\* C24: the risk level of every Report is the level of its own final risk score
\* by the fixed thresholds unless a merged candidate supplied one of the four
\* canonical levels, and then it is a level that a candidate supplied; a level
\* outside the four is not used and does not keep the baseline's level in place
C24_RiskLevelDerivedOrVoted ==
  /\ baseline.risk.level = LevelAt(baseline.risk.score)
  /\ Returned =>
       /\ result.report.risk.level \in RiskLevels
       /\ CanonicalVotes = {} => result.report.risk.level = LevelAt(result.report.risk.score)
       /\ CanonicalVotes # {} => result.report.risk.level \in CanonicalVotes

\* a candidate supplied the level critical in lower case with a high risk
\* score; the returned level is the level of the blended score and is not the
\* baseline's
C24_NonCanonicalLevelRederived ==
  /\ Returned
  /\ \E p \in SucceededCalls :
       Lookup(Lookup(CandidateOf(p), "risk"), "level") = Str(<<"critical">>)
  /\ CanonicalVotes = {}
  /\ result.report.risk.level # baseline.risk.level
  /\ result.report.risk.level # <<"Critical">>

\* the succeeded calls whose candidate supplied the canonical level
VotersFor(level) ==
  {p \in SucceededCalls :
     LET given == Lookup(Lookup(CandidateOf(p), "risk"), "level")
     IN given.t = "str" /\ Trim(given.v) = level}

\* the canonical levels with the most votes
MostFrequentLevels ==
  {level \in CanonicalVotes :
     \A other \in CanonicalVotes :
       Cardinality(VotersFor(level)) >= Cardinality(VotersFor(other))}

\* C25: after a consensus merge the risk level is the most frequent of the
\* candidates' canonical levels, and when several levels tie for most frequent
\* the level is the one re-derived from the blended risk score
C25_TieRederivedFromScore ==
  (/\ pc = "done"
   /\ plan.mode = "hybrid"
   /\ Cardinality(SucceededCalls) >= 2
   /\ Returned) =>
    /\ Cardinality(MostFrequentLevels) = 1 => result.report.risk.level \in MostFrequentLevels
    /\ Cardinality(MostFrequentLevels) # 1 =>
         result.report.risk.level = LevelAt(result.report.risk.score)

\* the entries of a list a succeeded call's candidate supplied, each one
\* sanitized field by field
GivenEntries(p, list, sanitized(_)) ==
  LET given == OptMember(CandidateOf(p), list)
  IN IF IsArray(given)
       THEN {sanitized(given.v[i]) : i \in {k \in 1..Len(given.v) : IsObjectLike(given.v[k])}}
       ELSE {}

\* the union of the baseline's issues / fixes and every candidate's
IssuePool ==
  Range(baseline.topIssues)
  \cup UNION {GivenEntries(p, "topIssues", normalizeIssue) : p \in SucceededCalls}

FixPool ==
  Range(baseline.priorityFixes)
  \cup UNION {GivenEntries(p, "priorityFixes", normalizeFix) : p \in SucceededCalls}

IssueKey(issue) == <<issue.file, issue.title>>

FixKey(fix) == <<fix.file, fix.suggestion>>

\* issue a does not come after issue b: higher severity first, then file name
IssueInOrder(a, b) ==
  \/ SEVERITY_RANK(a.severity) > SEVERITY_RANK(b.severity)
  \/ /\ SEVERITY_RANK(a.severity) = SEVERITY_RANK(b.severity)
     /\ localeCompare(a.file, b.file) <= 0

\* fix a does not come after fix b: higher impact first, then lower effort,
\* then file name
FixInOrder(a, b) ==
  \/ IMPACT_RANK(a.impact) > IMPACT_RANK(b.impact)
  \/ /\ IMPACT_RANK(a.impact) = IMPACT_RANK(b.impact)
     /\ \/ EFFORT_RANK(a.effort) > EFFORT_RANK(b.effort)
        \/ /\ EFFORT_RANK(a.effort) = EFFORT_RANK(b.effort)
           /\ localeCompare(a.file, b.file) <= 0

\* C26: after a consensus merge topIssues holds entries of the union of the
\* baseline's and the candidates' sanitized issues, one per (file, title), in
\* the order severity rank descending then file name ascending, as many as the
\* union has keys up to 12, and no issue of the union that is left out has a
\* higher severity than an issue kept; priorityFixes likewise with the key
\* (file, suggestion), the order impact, effort rank, file name and the cap 6
C26_UnionSortedThenCut ==
  (/\ pc = "done"
   /\ plan.mode = "hybrid"
   /\ Cardinality(SucceededCalls) >= 2
   /\ Returned) =>
    LET issues == result.report.topIssues
        fixes == result.report.priorityFixes
    IN /\ Range(issues) \subseteq IssuePool
       /\ Len(issues) = Min(12, Cardinality({IssueKey(x) : x \in IssuePool}))
       /\ \A i, j \in 1..Len(issues) :
            i < j => IssueKey(issues[i]) # IssueKey(issues[j]) /\ IssueInOrder(issues[i], issues[j])
       /\ \A x \in IssuePool :
            IssueKey(x) \notin {IssueKey(y) : y \in Range(issues)} =>
              \A y \in Range(issues) : SEVERITY_RANK(x.severity) <= SEVERITY_RANK(y.severity)
       /\ Range(fixes) \subseteq FixPool
       /\ Len(fixes) = Min(6, Cardinality({FixKey(x) : x \in FixPool}))
       /\ \A i, j \in 1..Len(fixes) :
            i < j => FixKey(fixes[i]) # FixKey(fixes[j]) /\ FixInOrder(fixes[i], fixes[j])
       /\ \A x \in FixPool :
            FixKey(x) \notin {FixKey(y) : y \in Range(fixes)} =>
              \A y \in Range(fixes) : IMPACT_RANK(x.impact) <= IMPACT_RANK(y.impact)

\* the findings of a snapshot: every issue of every file, with its file
FindingsOf(snapshot) ==
  UNION {{[file |-> analyzeFile(snapshot.files[i]).path,
           title |-> issue.title,
           description |-> issue.description,
           severity |-> issue.severity,
           recommendation |-> issue.recommendation] :
            issue \in Range(analyzeFile(snapshot.files[i]).issues)} :
         i \in 1..Len(snapshot.files)}

\* the complexityScore of the file of the snapshot with the given path
ComplexityOf(snapshot, path) ==
  LET i == CHOOSE k \in 1..Len(snapshot.files) : snapshot.files[k].path = path
  IN analyzeFile(snapshot.files[i]).complexityScore

\* the snapshots the baseline Report can have been built from
SnapshotsOfBaseline ==
  {snapshot \in Snapshots :
     /\ baseline.analysisMeta.sampling = snapshot.stats
     /\ baseline = buildLocalReport(snapshot)}

\* C27: when the local analyzer has built the baseline Report and the request
\* has not begun, the Report's topIssues are findings of the snapshot, as many
\* as there are up to 12, in the order severity rank descending then
\* complexityScore of the owning file descending; no finding left out has a
\* higher severity than a listed one, and with at most 12 Critical findings
\* every Critical finding is listed
C27_LocalTopIssuesBySeverity ==
  pc = "start" =>
  \A snapshot \in SnapshotsOfBaseline :
    LET top == baseline.topIssues
        findings == FindingsOf(snapshot)
        critical == {x \in findings : x.severity = <<"Critical">>}
    IN /\ Range(top) \subseteq findings
       /\ Len(top) = Min(12, Cardinality(findings))
       /\ Cardinality(Range(top)) = Len(top)
       /\ \A i, j \in 1..Len(top) :
            i < j =>
              \/ SEVERITY_ORDER(top[i].severity) > SEVERITY_ORDER(top[j].severity)
              \/ /\ top[i].severity = top[j].severity
                 /\ ComplexityOf(snapshot, top[i].file) >= ComplexityOf(snapshot, top[j].file)
       /\ \A x \in findings \ Range(top) :
            \A y \in Range(top) : SEVERITY_ORDER(x.severity) <= SEVERITY_ORDER(y.severity)
       /\ Cardinality(critical) <= 12 => critical \subseteq Range(top)

\* the snapshot has more than 12 findings, Critical ones and lesser ones among
\* them, and the baseline Report lists 12 of them
C27_FindingsLeftOut ==
  /\ pc = "start"
  /\ \E snapshot \in SnapshotsOfBaseline :
       /\ Cardinality(FindingsOf(snapshot)) > 12
       /\ \E x \in FindingsOf(snapshot) : x.severity = <<"Critical">>
       /\ \E x \in FindingsOf(snapshot) \ Range(baseline.topIssues) : x.severity = <<"Low">>
  /\ Len(baseline.topIssues) = 12

\* the floor and the ceiling of each category score of the local analyzer
CategoryFloor ==
  [maintainability |-> 20, reliability |-> 15, security |-> 10, documentation |-> 20,
   architecture |-> 25]

CategoryCeiling ==
  [maintainability |-> 98, reliability |-> 97, security |-> 98, documentation |-> 96,
   architecture |-> 96]

\* C28: each category score of the baseline Report the local analyzer built
\* from a non-empty snapshot lies between its floor and its ceiling, hence is
\* neither 0 nor 100
C28_LocalCategoryBounds ==
  \A key \in CategoryNames :
    /\ CategoryFloor[key] <= baseline.categories[key]
    /\ baseline.categories[key] <= CategoryCeiling[key]
    /\ baseline.categories[key] \notin {0, 100}

\* a snapshot with so many severe findings that reliability and security sit
\* at their floors
C28_ScoresAtFloor ==
  /\ pc = "start"
  /\ baseline.categories["reliability"] = 15
  /\ baseline.categories["security"] = 10
  /\ Len(baseline.topIssues) = 12
  /\ baseline.topIssues[1].severity = <<"Critical">>

\* what the hybrid flow returns when each provider's outcome is taken in the
\* fixed provider order
FixedOrderOutcome ==
  hybridOutcome([i \in 1..Len(plan.providers) |->
                   HybridAttempt(plan.providers[i], responses[plan.providers[i]])])

\* C29: the Report a hybrid request returns is the one obtained from the
\* providers' outcomes taken in the fixed provider order, whatever the order in
\* which the calls settled; when both providers succeeded the provider and model
\* tags name gemini before groq
C29_SettleOrderIrrelevant ==
  (/\ pc = "done"
   /\ plan.mode = "hybrid"
   /\ Returned) =>
    /\ \A expected \in {FixedOrderOutcome} :
         ~expected.threw /\ result.report = expected.report
    /\ SucceededCalls = Providers =>
         /\ result.report.analysisMeta.provider = <<"hybrid:", "gemini", "+", "groq">>
         /\ result.report.analysisMeta.model =
              DEFAULT_MODELS("gemini") \o <<" ", "+", " ">> \o DEFAULT_MODELS("groq")

\* groq settled before gemini, both succeeded with objects that differ, and the
\* request returned the consensus Report
C29_LaterProviderSettledFirst ==
  /\ pc = "done"
  /\ plan.mode = "hybrid"
  /\ completions = <<"groq", "gemini">>
  /\ SucceededCalls = Providers
  /\ CandidateOf("gemini").t = "obj"
  /\ CandidateOf("groq").t = "obj"
  /\ CandidateOf("gemini") # CandidateOf("groq")
  /\ Returned
  /\ result.report.summary # baseline.summary

\* the fields of analysisMeta the local analyzer measured
MeasuredMeta == {"filesAnalyzed", "estimatedLoc", "sampling"}

\* the returned Report has the baseline's project, confidence, heatmap and
\* measured analysisMeta fields
BaselineFrame ==
  Returned =>
    /\ result.report.project = baseline.project
    /\ result.report.confidence = baseline.confidence
    /\ result.report.heatmap = baseline.heatmap
    /\ MeasuredMeta \subseteq DOMAIN result.report.analysisMeta
    /\ \A field \in MeasuredMeta :
         result.report.analysisMeta[field] = baseline.analysisMeta[field]

\* C30: no step of a request changes the baseline Report, a failed attempt
\* included, and whenever a Report has been returned its project, confidence,
\* heatmap and analysisMeta.filesAnalyzed, estimatedLoc and sampling are the
\* baseline's, whatever the candidates held
C30_BaselineUntouched == [][baseline' = baseline]_vars /\ []BaselineFrame

\* after a failed attempt a provider succeeded with a candidate that carries a
\* heatmap of its own, and the returned Report took the candidate's issues
C30_CandidateWithHeatmapMerged ==
  /\ pc = "done"
  /\ Returned
  /\ FailedCalls # {}
  /\ \E p \in SucceededCalls :
       /\ CandidateOf(p).t = "obj"
       /\ Lookup(CandidateOf(p), "heatmap").t = "arr"
       /\ Len(Lookup(CandidateOf(p), "heatmap").v) > 0
  /\ result.report.topIssues # baseline.topIssues

====
